---- MODULE Spec2Model ----
(***************************************************************************)
(* A model of the herlang front end: the Pratt parser of                   *)
(* src/parser/mod.rs working on the token stream the lexer of              *)
(* src/lexer/mod.rs hands it.                                              *)
(*                                                                         *)
(* A token is a pair <<kind, payload>>; the payload is "" for the kinds    *)
(* that carry none.  An AST node is a tuple whose first element is the     *)
(* name of the Rust variant.  Option::None is the node <<"None">>.         *)
(* Text written in CJK in the source is transliterated, one name in angle  *)
(* brackets per character ("<nv><xing>" = U+5973 U+6027).                   *)
(***************************************************************************)
EXTENDS Integers, Sequences, FiniteSets, TLC

VARIABLES lexer, tokens, parser, program, pc, host, call, evaluator

vars == <<lexer, tokens, parser, program, pc, host, call, evaluator>>

RECURSIVE parse_stmt(_), parse_expr(_, _), infix_loop(_, _, _)
RECURSIVE block_loop(_, _), hash_loop(_, _), expr_list_loop(_, _, _)
RECURSIVE params_loop(_, _), parse_if_expr(_), parse_while_expr(_)
RECURSIVE parse_func_expr(_), parse_prefix_expr(_), parse_grouped_expr(_)
RECURSIVE parse_infix_expr(_, _), parse_index_expr(_, _), parse_call_expr(_, _)
RECURSIVE parse_hash_expr(_), parse_expr_list(_, _), parse_block_stmt(_)
RECURSIVE parse_array_expr(_), parse_dot_access_expr(_, _)

-----------------------------------------------------------------------------
(* Tokens                                                                  *)

T(kind) == <<kind, "">>

Ident(name) == <<"Ident", name>>

Eof == T("Eof")

None == <<"None">>

kind(tok) == tok[1]

\* HER_KEY_WORDS: the names a let may not bind.
HER_KEY_WORDS == {"<nv><xing>", "her", "<nv>", "female", "woman", "girl", "lady"}

\* The text carried by the reserved-name diagnostic.
HerMessage == "nvxing shi bu neng bei dingyi de!!!"

InfixKinds ==
    {"Plus", "Minus", "Slash", "Asterisk", "Equal", "NotEqual",
     "LessThan", "LessThanEqual", "GreaterThan", "GreaterThanEqual"}

\* Precedence derives PartialOrd: the rank is the position of the variant.
Rank(precedence) ==
    CASE precedence = "Lowest" -> 0
      [] precedence = "Equals" -> 1
      [] precedence = "LessGreater" -> 2
      [] precedence = "Sum" -> 3
      [] precedence = "Product" -> 4
      [] precedence = "Prefix" -> 5
      [] precedence = "Index" -> 6
      [] precedence = "Call" -> 7

\* Defect: `*` and `/` filed under Sum.
token_to_precedence_flat(tok) ==
    CASE kind(tok) \in {"Equal", "NotEqual"} -> "Equals"
      [] kind(tok) \in {"LessThan", "LessThanEqual"} -> "LessGreater"
      [] kind(tok) \in {"GreaterThan", "GreaterThanEqual"} -> "LessGreater"
      [] kind(tok) \in {"Plus", "Minus", "Slash", "Asterisk"} -> "Sum"
      [] kind(tok) = "Lbracket" -> "Index"
      [] kind(tok) = "Dot" -> "Index"
      [] kind(tok) = "Lparen" -> "Call"
      [] OTHER -> "Lowest"

token_to_precedence(tok) ==
    CASE kind(tok) \in {"Equal", "NotEqual"} -> "Equals"
      [] kind(tok) \in {"LessThan", "LessThanEqual"} -> "LessGreater"
      [] kind(tok) \in {"GreaterThan", "GreaterThanEqual"} -> "LessGreater"
      [] kind(tok) \in {"Plus", "Minus"} -> "Sum"
      [] kind(tok) \in {"Slash", "Asterisk"} -> "Product"
      [] kind(tok) = "Lbracket" -> "Index"
      [] kind(tok) = "Dot" -> "Index"
      [] kind(tok) = "Lparen" -> "Call"
      [] OTHER -> "Lowest"

-----------------------------------------------------------------------------
(* The parser state.  toks is the token stream the lexer yields for the    *)
(* input, pos the index of current_token in it (next_token is the one      *)
(* after).  errors is the diagnostic accumulator.  Three fields observe    *)
(* the run: panicked (an unwrap of None aborted the parse), dropped (the   *)
(* number of statements a statement loop discarded because parse_stmt      *)
(* returned None) and stalled (some loop iteration consumed no token).     *)

\* Lexer::next_token past the end of the input: read_char keeps ch at NUL,
\* and NUL lexes to Eof.
TokAt(toks, i) == IF i <= Len(toks) THEN toks[i] ELSE Eof

current_token(p) == TokAt(p.toks, p.pos)

next_token(p) == TokAt(p.toks, p.pos + 1)

\* The token a lexer call hands on when it panicked instead of returning.
Aborted == T("Panic")

\* `let r = value; Body(r)`: value is computed once and Body sees the result.
Bind(value, Body(_)) == CHOOSE result \in {Body(r) : r \in {value}} : TRUE

\* Parser::new: current_token and next_token are filled by two bumps.
NewParser(toks) ==
    [toks |-> toks, pos |-> 1, errors |-> <<>>,
     panicked |-> Aborted \in {TokAt(toks, 1), TokAt(toks, 2)},
     dropped |-> 0, stalled |-> FALSE]

\* next_token becomes current_token and the lexer is called for the token
\* after it; a panic of that call aborts the parse.
bump(p) ==
    Bind(p, LAMBDA q :
      [q EXCEPT !.pos = @ + 1, !.panicked = @ \/ TokAt(q.toks, q.pos + 2) = Aborted])

current_token_is(p, k) == kind(current_token(p)) = k

next_token_is(p, k) == kind(next_token(p)) = k

UnexpectedToken(want, got) == <<"UnexpectedToken", want, got>>

HerUnexpectedToken(got) == <<"HerUnexpectedToken", got>>

error_next_token(p, k) ==
    [p EXCEPT !.errors = Append(@, UnexpectedToken(T(k), next_token(p)))]

error_no_prefix_parser(p) ==
    [p EXCEPT !.errors = Append(@, UnexpectedToken(None, next_token(p)))]

\* expect_next_token as a pair: the flag it returns and the state it leaves.
expect_next_token(p, k) ==
    IF next_token_is(p, k)
    THEN [ok |-> TRUE, p |-> bump(p)]
    ELSE [ok |-> FALSE, p |-> error_next_token(p, k)]

\* The result of a handler: the state it leaves and the Option it returns.
Ret(p, node) == [p |-> p, node |-> node]

\* `if self.next_token_is(&Token::Semicolon) { self.bump(); }`
skip_semicolon(p) == IF next_token_is(p, "Semicolon") THEN bump(p) ELSE p

\* Option::unwrap on None panics; the parse is abandoned.
Panic(p) == [p EXCEPT !.panicked = TRUE]

\* The end of one loop iteration that started in state p0.
EndIter(p0, p) == [p EXCEPT !.stalled = @ \/ p.pos <= p0.pos]

Halted(p) == p.panicked \/ p.stalled

-----------------------------------------------------------------------------
(* Leaf handlers                                                           *)

parse_ident(p) ==
    IF current_token_is(p, "Ident") THEN <<"Ident", current_token(p)[2]>> ELSE None

parse_ident_expr(p) == Ret(p, parse_ident(p))

parse_int_expr(p) ==
    Ret(p, IF current_token_is(p, "Int") THEN <<"Int", current_token(p)[2]>> ELSE None)

parse_string_expr(p) ==
    Ret(p, IF current_token_is(p, "String")
           THEN <<"String", current_token(p)[2]>> ELSE None)

parse_bool_expr(p) ==
    Ret(p, IF current_token_is(p, "Bool") THEN <<"Bool", current_token(p)[2]>> ELSE None)

PrefixOf(tok) ==
    CASE kind(tok) = "Bang" -> "Not"
      [] kind(tok) = "Minus" -> "Minus"
      [] kind(tok) = "Plus" -> "Plus"

InfixOf(tok) ==
    CASE kind(tok) = "Plus" -> "Plus"
      [] kind(tok) = "Minus" -> "Minus"
      [] kind(tok) = "Slash" -> "Divide"
      [] kind(tok) = "Asterisk" -> "Multiply"
      [] kind(tok) = "Equal" -> "Equal"
      [] kind(tok) = "NotEqual" -> "NotEqual"
      [] kind(tok) = "LessThan" -> "LessThan"
      [] kind(tok) = "LessThanEqual" -> "LessThanEqual"
      [] kind(tok) = "GreaterThan" -> "GreaterThan"
      [] kind(tok) = "GreaterThanEqual" -> "GreaterThanEqual"

-----------------------------------------------------------------------------
(* Statements                                                              *)

\* Defect: the reserved-name check left out.
parse_let_stmt_unchecked(p) ==
    IF ~next_token_is(p, "Ident") THEN Ret(p, None)
    ELSE
      LET p1 == bump(p)
          name == parse_ident(p1)
          e == expect_next_token(p1, "Assign")
      IN  IF ~e.ok THEN Ret(e.p, None)
          ELSE Bind(parse_expr(bump(e.p), "Lowest"), LAMBDA r :
                 IF r.node = None THEN r
                 ELSE Ret(skip_semicolon(r.p), <<"Let", name, r.node>>))

parse_let_stmt(p) ==
    IF ~next_token_is(p, "Ident") THEN Ret(p, None)
    ELSE
      LET p1 == bump(p)
          name == parse_ident(p1)
          e == expect_next_token(p1, "Assign")
      IN  IF ~e.ok THEN Ret(e.p, None)
          ELSE IF name[2] \in HER_KEY_WORDS
          THEN Ret([e.p EXCEPT !.errors = Append(@, HerUnexpectedToken(HerMessage))],
                   None)
          ELSE Bind(parse_expr(bump(e.p), "Lowest"), LAMBDA r :
                 IF r.node = None THEN r
                 ELSE Ret(skip_semicolon(r.p), <<"Let", name, r.node>>))

parse_return_stmt(p) ==
    Bind(parse_expr(bump(p), "Lowest"), LAMBDA r :
      IF r.node = None THEN r
      ELSE Ret(skip_semicolon(r.p), <<"Return", r.node>>))

parse_break_stmt(p) == Ret(skip_semicolon(bump(p)), <<"Break">>)

parse_continue_stmt(p) == Ret(skip_semicolon(bump(p)), <<"Continue">>)

parse_expr_stmt(p) ==
    Bind(parse_expr(p, "Lowest"), LAMBDA r :
      IF r.node = None THEN r
      ELSE Ret(skip_semicolon(r.p), <<"Expr", r.node>>))

parse_stmt(p) ==
    CASE current_token_is(p, "Let") -> parse_let_stmt(p)
      [] current_token_is(p, "Return") -> parse_return_stmt(p)
      [] current_token_is(p, "Blank") -> Ret(p, <<"Blank">>)
      [] current_token_is(p, "Break") -> parse_break_stmt(p)
      [] current_token_is(p, "Continue") -> parse_continue_stmt(p)
      [] OTHER -> parse_expr_stmt(p)

\* Defect: the bump that ends the iteration left out.
StmtIter_no_bump(p, stmts) ==
    Bind(parse_stmt(p), LAMBDA r :
      IF r.p.panicked THEN Ret(r.p, stmts)
      ELSE IF r.node = None
      THEN Ret(EndIter(p, [r.p EXCEPT !.dropped = @ + 1]), stmts)
      ELSE Ret(EndIter(p, r.p), Append(stmts, r.node)))

\* `match self.parse_stmt() { Some(stmt) => push, None => {} }; self.bump();`
\* as the state left and the statement sequence extended.
StmtIter(p, stmts) ==
    Bind(parse_stmt(p), LAMBDA r :
      IF r.p.panicked THEN Ret(r.p, stmts)
      ELSE IF r.node = None
      THEN Ret(EndIter(p, bump([r.p EXCEPT !.dropped = @ + 1])), stmts)
      ELSE Ret(EndIter(p, bump(r.p)), Append(stmts, r.node)))

block_loop(p, block) ==
    IF Halted(p) \/ current_token_is(p, "Rbrace") THEN Ret(p, block)
    ELSE IF current_token_is(p, "Eof") THEN Ret(error_next_token(p, "Rbrace"), block)
    ELSE Bind(StmtIter(p, block), LAMBDA r : block_loop(r.p, r.node))

parse_block_stmt(p) == block_loop(bump(p), <<>>)

-----------------------------------------------------------------------------
(* Expressions                                                             *)

infix_loop(p, left, precedence) ==
    IF Halted(p) THEN Ret(p, None)
    ELSE IF ~next_token_is(p, "Semicolon")
            /\ Rank(precedence) < Rank(token_to_precedence(next_token(p)))
    THEN
      IF kind(next_token(p)) \in InfixKinds \cup {"Lbracket", "Dot", "Lparen"}
      THEN IF left = None THEN Ret(Panic(bump(p)), None)
           ELSE Bind(CASE next_token_is(p, "Lbracket") -> parse_index_expr(bump(p), left)
                       [] next_token_is(p, "Dot") -> parse_dot_access_expr(bump(p), left)
                       [] next_token_is(p, "Lparen") -> parse_call_expr(bump(p), left)
                       [] OTHER -> parse_infix_expr(bump(p), left),
                     LAMBDA r : infix_loop(EndIter(p, r.p), r.node, precedence))
      ELSE Ret(p, left)
    ELSE Ret(p, left)

parse_expr(p, precedence) ==
    LET k == kind(current_token(p))
    IN  IF k \notin {"Ident", "Int", "String", "Bool", "Lbracket", "Lbrace", "Bang",
                     "Minus", "Plus", "Lparen", "If", "While", "Func"}
        THEN Ret(error_no_prefix_parser(p), None)
        ELSE Bind(CASE k = "Ident" -> parse_ident_expr(p)
                    [] k = "Int" -> parse_int_expr(p)
                    [] k = "String" -> parse_string_expr(p)
                    [] k = "Bool" -> parse_bool_expr(p)
                    [] k = "Lbracket" -> parse_array_expr(p)
                    [] k = "Lbrace" -> parse_hash_expr(p)
                    [] k \in {"Bang", "Minus", "Plus"} -> parse_prefix_expr(p)
                    [] k = "Lparen" -> parse_grouped_expr(p)
                    [] k = "If" -> parse_if_expr(p)
                    [] k = "While" -> parse_while_expr(p)
                    [] k = "Func" -> parse_func_expr(p),
                  LAMBDA r : infix_loop(r.p, r.node, precedence))

\* Defect: the operand of a prefix operator parsed with the lowest bound.
parse_prefix_expr_lowest(p) ==
    Bind(parse_expr(bump(p), "Lowest"), LAMBDA r :
      IF r.node = None THEN r
      ELSE Ret(r.p, <<"Prefix", PrefixOf(current_token(p)), r.node>>))

parse_prefix_expr(p) ==
    Bind(parse_expr(bump(p), "Prefix"), LAMBDA r :
      IF r.node = None THEN r
      ELSE Ret(r.p, <<"Prefix", PrefixOf(current_token(p)), r.node>>))

\* Defect: the right operand parsed with the lowest bound, not the operator's.
parse_infix_expr_lowest(p, left) ==
    Bind(parse_expr(bump(p), "Lowest"), LAMBDA r :
      IF r.node = None THEN r
      ELSE Ret(r.p, <<"Infix", InfixOf(current_token(p)), left, r.node>>))

parse_infix_expr(p, left) ==
    Bind(parse_expr(bump(p), token_to_precedence(current_token(p))), LAMBDA r :
      IF r.node = None THEN r
      ELSE Ret(r.p, <<"Infix", InfixOf(current_token(p)), left, r.node>>))

parse_index_expr(p, left) ==
    Bind(parse_expr(bump(p), "Lowest"), LAMBDA r :
      IF r.node = None THEN r
      ELSE LET e == expect_next_token(r.p, "Rbracket")
           IN  IF ~e.ok THEN Ret(e.p, None)
               ELSE Ret(e.p, <<"Index", left, r.node>>))

parse_grouped_expr(p) ==
    Bind(parse_expr(bump(p), "Lowest"), LAMBDA r :
      IF r.p.panicked THEN r
      ELSE LET e == expect_next_token(r.p, "Rparen")
           IN  IF ~e.ok THEN Ret(e.p, None) ELSE Ret(e.p, r.node))

\* Defect: the reserved-name check applied to the key of a dot access too.
parse_dot_access_expr_reserved(p, left) ==
    LET p1 == bump(p)
        name == parse_ident(p1)
    IN  IF name = None THEN Ret(p1, None)
        ELSE IF name[2] \in HER_KEY_WORDS
        THEN Ret([p1 EXCEPT !.errors = Append(@, HerUnexpectedToken(HerMessage))], None)
        ELSE Ret(p1, <<"Index", left, <<"String", name[2]>>>>)

parse_dot_access_expr(p, left) ==
    LET p1 == bump(p)
        name == parse_ident(p1)
    IN  IF name = None THEN Ret(p1, None)
        ELSE Ret(p1, <<"Index", left, <<"String", name[2]>>>>)

\* A Vec returned by a list handler is the node <<"List", elements>>.
expr_list_loop(p, list, end) ==
    IF Halted(p) THEN Ret(p, None)
    ELSE IF next_token_is(p, "Comma")
    THEN Bind(parse_expr(bump(bump(p)), "Lowest"), LAMBDA r :
           IF r.node = None THEN r
           ELSE expr_list_loop(EndIter(p, r.p), Append(list, r.node), end))
    ELSE LET e == expect_next_token(p, end)
         IN  IF ~e.ok THEN Ret(e.p, None) ELSE Ret(e.p, <<"List", list>>)

parse_expr_list(p, end) ==
    IF next_token_is(p, end) THEN Ret(bump(p), <<"List", <<>>>>)
    ELSE Bind(parse_expr(bump(p), "Lowest"), LAMBDA r :
           IF r.node = None THEN r
           ELSE expr_list_loop(r.p, <<r.node>>, end))

parse_array_expr(p) ==
    Bind(parse_expr_list(p, "Rbracket"), LAMBDA r :
      IF r.node = None THEN r ELSE Ret(r.p, <<"Array", r.node[2]>>))

parse_call_expr(p, func) ==
    Bind(parse_expr_list(p, "Rparen"), LAMBDA r :
      IF r.node = None THEN r ELSE Ret(r.p, <<"Call", func, r.node[2]>>))

\* The end of a hash-loop iteration, after the pair key: value was parsed.
hash_pair_end(p0, value, pairs) ==
    IF next_token_is(value.p, "Rbrace") THEN Ret(EndIter(p0, value.p), pairs)
    ELSE LET comma == expect_next_token(value.p, "Comma")
         IN  IF ~comma.ok THEN Ret(comma.p, None)
             ELSE Ret(EndIter(p0, comma.p), pairs)

hash_loop(p, pairs) ==
    IF Halted(p) THEN Ret(p, None)
    ELSE IF ~next_token_is(p, "Rbrace")
    THEN
      Bind(parse_expr(bump(p), "Lowest"), LAMBDA key :
        IF key.node = None THEN key
        ELSE LET colon == expect_next_token(key.p, "Colon")
             IN  IF ~colon.ok THEN Ret(colon.p, None)
                 ELSE Bind(parse_expr(bump(colon.p), "Lowest"), LAMBDA value :
                        IF value.node = None THEN value
                        ELSE LET it == hash_pair_end(p, value,
                                                     Append(pairs, <<key.node, value.node>>))
                             IN  IF it.node = None THEN it
                                 ELSE hash_loop(it.p, it.node)))
    ELSE LET e == expect_next_token(p, "Rbrace")
         IN  IF ~e.ok THEN Ret(e.p, None) ELSE Ret(e.p, <<"Hash", pairs>>)

parse_hash_expr(p) == hash_loop(p, <<>>)

\* The `else { ... }` part of an if expression, after the consequence.
parse_else(cond, consequence) ==
    IF consequence.p.panicked THEN Ret(consequence.p, None)
    ELSE IF ~next_token_is(consequence.p, "Else")
    THEN Ret(consequence.p, <<"If", cond.node, consequence.node, None>>)
    ELSE LET lbrace == expect_next_token(bump(consequence.p), "Lbrace")
         IN  IF ~lbrace.ok THEN Ret(lbrace.p, None)
             ELSE Bind(parse_block_stmt(lbrace.p), LAMBDA alternative :
                    IF alternative.p.panicked THEN Ret(alternative.p, None)
                    ELSE Ret(alternative.p,
                             <<"If", cond.node, consequence.node,
                               <<"Some", alternative.node>>>>))

\* `( <expr> ) {` of if and while: the condition, or None.
parse_cond(p) ==
    LET lparen == expect_next_token(p, "Lparen")
    IN  IF ~lparen.ok THEN Ret(lparen.p, None)
        ELSE Bind(parse_expr(bump(lparen.p), "Lowest"), LAMBDA cond :
               IF cond.node = None THEN cond
               ELSE LET rparen == expect_next_token(cond.p, "Rparen")
                        lbrace == expect_next_token(rparen.p, "Lbrace")
                    IN  IF ~rparen.ok THEN Ret(rparen.p, None)
                        ELSE IF ~lbrace.ok THEN Ret(lbrace.p, None)
                        ELSE Ret(lbrace.p, cond.node))

parse_if_expr(p) ==
    Bind(parse_cond(p), LAMBDA cond :
      IF cond.node = None THEN cond
      ELSE Bind(parse_block_stmt(cond.p), LAMBDA consequence :
             parse_else(cond, consequence)))

parse_while_expr(p) ==
    Bind(parse_cond(p), LAMBDA cond :
      IF cond.node = None THEN cond
      ELSE Bind(parse_block_stmt(cond.p), LAMBDA consequence :
             IF consequence.p.panicked THEN Ret(consequence.p, None)
             ELSE Ret(consequence.p, <<"While", cond.node, consequence.node>>)))

params_loop(p, params) ==
    IF Halted(p) THEN Ret(p, None)
    ELSE IF next_token_is(p, "Comma")
    THEN LET p2 == bump(bump(p))
             ident == parse_ident(p2)
         IN  IF ident = None THEN Ret(p2, None)
             ELSE params_loop(EndIter(p, p2), Append(params, ident))
    ELSE LET e == expect_next_token(p, "Rparen")
         IN  IF ~e.ok THEN Ret(e.p, None) ELSE Ret(e.p, <<"List", params>>)

parse_func_params(p) ==
    IF next_token_is(p, "Rparen") THEN Ret(bump(p), <<"List", <<>>>>)
    ELSE LET p1 == bump(p)
             ident == parse_ident(p1)
         IN  IF ident = None THEN Ret(p1, None) ELSE params_loop(p1, <<ident>>)

parse_func_expr(p) ==
    LET lparen == expect_next_token(p, "Lparen")
    IN  IF ~lparen.ok THEN Ret(lparen.p, None)
        ELSE Bind(parse_func_params(lparen.p), LAMBDA params :
               IF params.node = None THEN params
               ELSE LET lbrace == expect_next_token(params.p, "Lbrace")
                    IN  IF ~lbrace.ok THEN Ret(lbrace.p, None)
                        ELSE Bind(parse_block_stmt(lbrace.p), LAMBDA body :
                               IF body.p.panicked THEN Ret(body.p, None)
                               ELSE Ret(body.p, <<"Func", params.node[2], body.node>>)))

RECURSIVE parse_loop(_, _)
parse_loop(p, prog) ==
    IF Halted(p) \/ current_token_is(p, "Eof") THEN Ret(p, prog)
    ELSE Bind(StmtIter(p, prog), LAMBDA r : parse_loop(r.p, r.node))

\* What a caller of Parser::parse followed by get_errors observes: the
\* Program and the diagnostics, or nothing at all when the parse panicked.
Outcome(p, prog) ==
    IF p.panicked THEN [panicked |-> TRUE, program |-> <<>>, errors |-> <<>>]
    ELSE [panicked |-> FALSE, program |-> prog, errors |-> p.errors]

Parse(toks) ==
    Bind(parse_loop(NewParser(toks), <<>>), LAMBDA r : Outcome(r.p, r.node))

-----------------------------------------------------------------------------
(* The lexer.  The input is a sequence of characters, each character a     *)
(* string: an ASCII character is itself ("a", "=", "\n"), any other one is *)
(* a name in angle brackets ("<xia>" = U+4E0B, "<NUL>" = U+0000), so that   *)
(* the concatenation of the characters of a text determines the text.      *)
(* The lexer state is the struct Lexer { input, pos, next_pos, ch }, with   *)
(* panicked observing an unwrap on Err that aborted the call.              *)

NUL == "<NUL>"

Quote == "\""

Backslash == "\\"

ASCII(s) == [i \in 1..Len(s) |-> SubSeq(s, i, i)]

RECURSIVE Concat(_)
Concat(chars) == IF chars = <<>> THEN "" ELSE chars[1] \o Concat(Tail(chars))

\* \t, form feed, \r, vertical tab, space, NEL, LRM, RLM, LS, PS.
is_whitespace(c) ==
    c \in {"\t", "\f", "\r", "<VT>", " ", "<NEL>", "<LRM>", "<RLM>", "<LS>", "<PS>"}

AsciiLowercase == {SubSeq("abcdefghijklmnopqrstuvwxyz", i, i) : i \in 1..26}

AsciiUppercase == {SubSeq("ABCDEFGHIJKLMNOPQRSTUVWXYZ", i, i) : i \in 1..26}

AsciiDigits == {SubSeq("0123456789", i, i) : i \in 1..10}

\* The characters of the localized keywords and of the reserved names.
KeywordChars ==
    {"<xiang>", "<yao>", "<ni>", "<yi>", "<ge>", "<tai>", "<du>", "<bao>", "<shi>",
     "<na>", "<me>", "<pu>", "<tong>", "<que>", "<zi>", "<xin>", "<za>", "<le>",
     "<jie>", "<mei>", "<men>", "<jue>", "<de>", "<ne>", "<pao>", "<kai>", "<shi2>",
     "<shi3>", "<bu>", "<tan>", "<neng>", "<yang>", "<ma>", "<wo>", "<jie2>", "<shou>",
     "<deng>", "<yu>", "<tong2>", "<yi2>", "<zai>", "<shuo>", "<bian>", "<xia>",
     "<tou>", "<fan>", "<shou2>", "<ju>", "<bao2>", "<pin>", "<dan>", "<cha>", "<yi3>",
     "<zhong>", "<cao>", "<cai>", "<lei>", "<bi>", "<wei>", "<pang>", "<nv>", "<xing>"}

\* unicode_xid, for the characters above U+007F of the model: the ideographs
\* of the keywords, two more ideographs ("<ji>", "<xu>"), the compatibility ideograph U+F967 ("<bu*>", whose
\* canonical form is U+4E0D "<bu>"), the letter U+00E9 ("<e'>") and, as a
\* continue character only, the combining acute accent U+0301 ("<acute>").
is_xid_start(c) == c \in KeywordChars \cup {"<bu*>", "<e'>", "<ji>", "<xu>"}

is_xid_continue(c) == is_xid_start(c) \/ c = "<acute>"

\* U+200D, the variation selectors and the emoji blocks: U+1F600 stands for them.
is_emoji_like(c) == c \in {"<ZWJ>", "<emoji>"}

is_id_start(c) ==
    \/ c \in AsciiLowercase
    \/ c \in AsciiUppercase
    \/ c \in {"_", "$", "<yen>"}
    \/ is_xid_start(c)
    \/ is_emoji_like(c)

is_id_continue(c) ==
    \/ c \in AsciiLowercase
    \/ c \in AsciiUppercase
    \/ c \in AsciiDigits
    \/ c \in {"_", "$", "<yen>"}
    \/ is_xid_continue(c)
    \/ is_emoji_like(c)

\* Normalization Form C of a text: a singleton decomposition is replaced by
\* its canonical form, a letter and a combining mark by their composition.
RECURSIVE nfc_normalize(_)
nfc_normalize(chars) ==
    IF chars = <<>> THEN <<>>
    ELSE IF Len(chars) >= 2 /\ chars[1] = "e" /\ chars[2] = "<acute>"
    THEN <<"<e'>">> \o nfc_normalize(Tail(Tail(chars)))
    ELSE <<IF chars[1] = "<bu*>" THEN "<bu>" ELSE chars[1]>> \o nfc_normalize(Tail(chars))

\* The unescape step of string literals: a backslash and the character
\* after it stand for one character.
RECURSIVE unescape(_)
unescape(chars) ==
    IF chars = <<>> THEN <<>>
    ELSE IF chars[1] = Backslash /\ Len(chars) >= 2
    THEN <<CASE chars[2] = "n" -> "\n"
             [] chars[2] = "t" -> "\t"
             [] chars[2] = "r" -> "\r"
             [] OTHER -> chars[2]>> \o unescape(Tail(Tail(chars)))
    ELSE <<chars[1]>> \o unescape(Tail(chars))

read_char(l) ==
    [l EXCEPT !.ch = IF l.next_pos >= Len(l.input) THEN NUL ELSE l.input[l.next_pos + 1],
              !.pos = l.next_pos,
              !.next_pos = l.next_pos + 1]

Lexer_new(input) ==
    read_char([input |-> input, pos |-> 0, next_pos |-> 0, ch |-> NUL, panicked |-> FALSE])

nextch(l) == IF l.next_pos >= Len(l.input) THEN NUL ELSE l.input[l.next_pos + 1]

nextch_is(l, ch) == nextch(l) = ch

RECURSIVE skip_whitespace(_)
skip_whitespace(l) == IF is_whitespace(l.ch) THEN skip_whitespace(read_char(l)) ELSE l

\* self.input[start_pos..self.pos]
Slice(l, start_pos) == SubSeq(l.input, start_pos + 1, l.pos)

\* The result of a lexer call: the state it leaves and the token it returns.
Lexed(l, tok) == [l |-> l, tok |-> tok]

RECURSIVE identifier_loop(_)
identifier_loop(l) == IF is_id_continue(l.ch) THEN identifier_loop(read_char(l)) ELSE l

\* Defect: the localized spellings of else, break and the operators left out.
Keyword_without_aliases(literal) ==
    CASE literal = "fn" -> T("Func")
      [] literal = "let" -> T("Let")
      [] literal = "true" -> <<"Bool", "true">>
      [] literal = "false" -> <<"Bool", "false">>
      [] literal = "if" -> T("If")
      [] literal = "while" -> T("While")
      [] literal = "break" -> T("Break")
      [] literal = "continue" -> T("Continue")
      [] literal = "else" -> T("Else")
      [] literal = "return" -> T("Return")
      [] literal = "<xiang><yao><ni><yi><ge><tai><du>" -> T("Func")
      [] literal = "<bao><bao><ni><shi><yi><ge>" -> T("Let")
      [] literal = "<na><me><pu><tong><que><na><me><zi><xin>" -> <<"Bool", "true">>
      [] literal = "<na><za><le>" -> <<"Bool", "false">>
      [] literal = "<jie><mei><men><jue><de><ne>" -> T("If")
      [] literal = "<pao><kai><shi2><shi3><bu><tan>" -> T("If")
      [] literal = "<ni><zai><shuo><yi><bian>" -> T("While")
      [] literal = "<fan><shou2><ju><bao2>" -> T("Return")
      [] OTHER -> None

\* The match of consume_identifier on the literal.
Keyword(literal) ==
    CASE literal = "fn" -> T("Func")
      [] literal = "let" -> T("Let")
      [] literal = "true" -> <<"Bool", "true">>
      [] literal = "false" -> <<"Bool", "false">>
      [] literal = "if" -> T("If")
      [] literal = "while" -> T("While")
      [] literal = "break" -> T("Break")
      [] literal = "continue" -> T("Continue")
      [] literal = "else" -> T("Else")
      [] literal = "return" -> T("Return")
      [] literal = "<xiang><yao><ni><yi><ge><tai><du>" -> T("Func")
      [] literal = "<bao><bao><ni><shi><yi><ge>" -> T("Let")
      [] literal = "<na><me><pu><tong><que><na><me><zi><xin>" -> <<"Bool", "true">>
      [] literal = "<na><za><le>" -> <<"Bool", "false">>
      [] literal = "<jie><mei><men><jue><de><ne>" -> T("If")
      [] literal = "<pao><kai><shi2><shi3><bu><tan>" -> T("If")
      [] literal = "<na><neng><yi><yang><ma>" -> T("Else")
      [] literal = "<wo><jie2><shou><bu><deng><yu><wo><tong2><yi2>" -> T("Else")
      [] literal = "<ni><zai><shuo><yi><bian>" -> T("While")
      [] literal = "<xia><tou>" -> T("Break")
      [] literal = "<fan><shou2><ju><bao2>" -> T("Return")
      [] literal = "<wo><tong2><yi2>" -> T("Equal")
      [] literal = "<wo><jie2><shou>" -> T("Equal")
      [] literal = "<pin><dan>" -> T("Plus")
      [] literal = "<jie2>" -> T("Plus")
      [] literal = "<cha><yi3>" -> T("Minus")
      [] literal = "<zhong><cao>" -> T("Asterisk")
      [] literal = "<cai><lei>" -> T("Slash")
      [] literal = "<bi><lei>" -> T("Slash")
      [] literal = "<wei><pang>" -> <<"String", "180kg">>
      [] OTHER -> None

consume_identifier(l) ==
    Bind(identifier_loop(l), LAMBDA end :
      LET literal == Slice(end, l.pos)
      IN  Lexed(end, IF Keyword(Concat(literal)) # None THEN Keyword(Concat(literal))
                     ELSE Ident(Concat(nfc_normalize(literal)))))

RECURSIVE number_loop(_)
number_loop(l) == IF l.ch \in AsciiDigits THEN number_loop(read_char(l)) ELSE l

DigitValue(c) == CHOOSE d \in 0..9 : SubSeq("0123456789", d + 1, d + 1) = c

RECURSIVE StripZeros(_)
StripZeros(digits) ==
    IF Len(digits) > 1 /\ digits[1] = "0" THEN StripZeros(Tail(digits)) ELSE digits

\* x <= y for two numerals of the same length.
RECURSIVE NumeralLeq(_, _)
NumeralLeq(x, y) ==
    \/ x = <<>>
    \/ DigitValue(x[1]) < DigitValue(y[1])
    \/ x[1] = y[1] /\ NumeralLeq(Tail(x), Tail(y))

\* i64::MAX
I64Max == ASCII("9223372036854775807")

\* str::parse::<i64> on a run of digits: Ok(the value), written as the
\* numeral without leading zeros, or Err when the value exceeds i64::MAX.
parse_i64(digits) ==
    LET numeral == StripZeros(digits)
    IN  IF \/ Len(numeral) < Len(I64Max)
           \/ Len(numeral) = Len(I64Max) /\ NumeralLeq(numeral, I64Max)
        THEN <<"Ok", Concat(numeral)>>
        ELSE <<"Err", "PosOverflow">>

consume_number(l) ==
    Bind(number_loop(l), LAMBDA end :
      LET parsed == parse_i64(Slice(end, l.pos))
      IN  IF parsed[1] = "Ok" THEN Lexed(end, <<"Int", parsed[2]>>)
          ELSE Lexed([end EXCEPT !.panicked = TRUE], Aborted))

PrematureEof == "<Lexer error: string: premature EOF>"

RECURSIVE string_loop(_, _, _)
string_loop(l, start_pos, bs) ==
    IF l.ch = NUL THEN Lexed(l, <<"String", PrematureEof>>)
    ELSE IF bs THEN string_loop(read_char(l), start_pos, FALSE)
    ELSE IF l.ch = Quote
    THEN Lexed(read_char(l), <<"String", Concat(unescape(Slice(l, start_pos)))>>)
    ELSE string_loop(read_char(l), start_pos, l.ch = Backslash)

consume_string(l) == string_loop(read_char(l), l.pos + 1, FALSE)

\* The arms of next_token that return one fixed token for one character.
Punctuation(c) ==
    CASE c = "+" -> T("Plus")
      [] c = "-" -> T("Minus")
      [] c = "/" -> T("Slash")
      [] c = "*" -> T("Asterisk")
      [] c = "(" -> T("Lparen")
      [] c = ")" -> T("Rparen")
      [] c = "{" -> T("Lbrace")
      [] c = "}" -> T("Rbrace")
      [] c = "[" -> T("Lbracket")
      [] c = "]" -> T("Rbracket")
      [] c = "." -> T("Dot")
      [] c = "," -> T("Comma")
      [] c = ";" -> T("Semicolon")
      [] c = ":" -> T("Colon")
      [] c = NUL -> Eof
      [] OTHER -> T("Illegal")

\* `if self.nextch_is('=') { self.read_char(); two } else { one }`
WithEqual(l, one, two) ==
    IF nextch_is(l, "=") THEN Lexed(read_char(read_char(l)), T(two))
    ELSE Lexed(read_char(l), T(one))

\* Defect: both newlines of a pair consumed with the Blank token.
RECURSIVE Lexer_next_token_pairs(_)
Lexer_next_token_pairs(l) ==
    Bind(skip_whitespace(l), LAMBDA s :
      CASE s.ch = "=" -> WithEqual(s, "Assign", "Equal")
        [] s.ch = "!" -> WithEqual(s, "Bang", "NotEqual")
        [] s.ch = "<" -> WithEqual(s, "LessThan", "LessThanEqual")
        [] s.ch = ">" -> WithEqual(s, "GreaterThan", "GreaterThanEqual")
        [] s.ch \in AsciiDigits -> consume_number(s)
        [] s.ch = Quote -> consume_string(s)
        [] s.ch = "\n" ->
             IF nextch_is(s, "\n") THEN Lexed(read_char(read_char(s)), T("Blank"))
             ELSE Lexer_next_token_pairs(read_char(s))
        [] is_id_start(s.ch) -> consume_identifier(s)
        [] OTHER -> Lexed(read_char(s), Punctuation(s.ch)))

RECURSIVE Lexer_next_token(_)
Lexer_next_token(l) ==
    Bind(skip_whitespace(l), LAMBDA s :
      CASE s.ch = "=" -> WithEqual(s, "Assign", "Equal")
        [] s.ch = "!" -> WithEqual(s, "Bang", "NotEqual")
        [] s.ch = "<" -> WithEqual(s, "LessThan", "LessThanEqual")
        [] s.ch = ">" -> WithEqual(s, "GreaterThan", "GreaterThanEqual")
        [] s.ch \in AsciiDigits -> consume_number(s)
        [] s.ch = Quote -> consume_string(s)
        [] s.ch = "\n" ->
             IF nextch_is(s, "\n") THEN Lexed(read_char(s), T("Blank"))
             ELSE Lexer_next_token(read_char(s))
        [] is_id_start(s.ch) -> consume_identifier(s)
        [] OTHER -> Lexed(read_char(s), Punctuation(s.ch)))

\* The lexer has returned the Eof of the end of the input.
AtEnd(l) == l.pos > Len(l.input)

\* The tokens the parser pulls from the lexer, up to the end of the input:
\* an Eof in the middle (a NUL character) included, the final Eof left to
\* TokAt, and Aborted last when a call panicked.
RECURSIVE lex_loop(_, _)
lex_loop(l, toks) ==
    Bind(Lexer_next_token(l), LAMBDA r :
      IF r.l.panicked THEN Append(toks, Aborted)
      ELSE IF AtEnd(r.l) THEN toks
      ELSE lex_loop(r.l, Append(toks, r.tok)))

Tokenize(input) == lex_loop(Lexer_new(input), <<>>)

-----------------------------------------------------------------------------
(* The host interface: eval and format of src/wasm/main.rs.  The host      *)
(* state holds the entry point called, whether it has returned, the string *)
(* it returned, what it handed to the print callback of the host, the root  *)
(* environment it built and the Program it handed to the evaluator.         *)
(* The evaluator and the formatter are black boxes: their output for a      *)
(* Program is <<"evaluated", Program>> and <<"formatted", Program>>; any    *)
(* other string is <<"text", string>>.                                      *)

Called(entry) ==
    [entry |-> entry, returned |-> FALSE, output |-> None, printed |-> <<>>,
     env |-> None, evaluated |-> None]

\* The Debug form of a str: quotes around it, and a backslash before a quote
\* or a backslash.
RECURSIVE Escaped(_)
Escaped(chars) ==
    IF chars = <<>> THEN ""
    ELSE (IF chars[1] \in {Quote, Backslash} THEN Backslash \o chars[1] ELSE chars[1])
           \o Escaped(Tail(chars))

DebugStr(s) == Quote \o Escaped(ASCII(s)) \o Quote

\* The derived Debug form of a Token.
DebugToken(tok) ==
    CASE kind(tok) \in {"Ident", "String"} -> kind(tok) \o "(" \o DebugStr(tok[2]) \o ")"
      [] kind(tok) \in {"Int", "Bool"} -> kind(tok) \o "(" \o tok[2] \o ")"
      [] OTHER -> kind(tok)

\* U+554A twelve times and a space.
Scream == "<a><a><a><a><a><a><a><a><a><a><a><a> "

\* impl fmt::Display for ParseError
Display(e) ==
    CASE e[1] = "UnexpectedToken" /\ e[2] # None ->
           Scream \o "Unexpected Token: expected " \o DebugToken(e[2]) \o ", got "
             \o DebugToken(e[3])
      [] e[1] = "UnexpectedToken" /\ e[2] = None ->
           Scream \o "Unexpected Token: no prefix rule for " \o DebugToken(e[3])
      [] e[1] = "HerUnexpectedToken" -> Scream \o "SyntaxError: " \o DebugStr(e[2])

RECURSIVE Messages(_)
Messages(errors) ==
    IF errors = <<>> THEN "" ELSE Display(errors[1]) \o "\n" \o Messages(Tail(errors))

\* Defect: a single diagnostic is let through.
wasm_parse_lenient(p, prog) ==
    IF Len(p.errors) > 1 THEN <<"Err", Messages(p.errors)>> ELSE <<"Ok", prog>>

\* parse of wasm/main.rs, from the return of parser.parse() on.
wasm_parse(p, prog) ==
    IF Len(p.errors) > 0 THEN <<"Err", Messages(p.errors)>> ELSE <<"Ok", prog>>

\* Object::Builtin(arity, function).
Builtin(arity, func) == <<"Builtin", arity, func>>

\* The names new_builtins registers: the plain ones, and the localized ones
\* U+54FC, U+5C0F U+4F5C U+6587, U+805A U+7126, U+590D U+7528, U+758F U+901A
\* and U+62B9 U+96F6.
BuiltinNames ==
    {"len", "first", "last", "rest", "push", "puts", "quit", "print", "repr", "str",
     "atoi", "<heng>", "<xiao><zuo><wen>", "<ju><jiao>", "<fu><yong>", "<shu><tong>",
     "<mo><ling>"}

\* new_builtins: the table from name to Object::Builtin.
new_builtins ==
    [name \in BuiltinNames |->
       CASE name = "len" -> Builtin(1, "monkey_len")
         [] name = "first" -> Builtin(1, "monkey_first")
         [] name = "last" -> Builtin(1, "monkey_last")
         [] name = "rest" -> Builtin(1, "monkey_rest")
         [] name = "push" -> Builtin(2, "monkey_push")
         [] name = "puts" -> Builtin(-1, "her_output")
         [] name = "quit" -> Builtin(-1, "her_quit")
         [] name = "print" -> Builtin(1, "her_print")
         [] name = "repr" -> Builtin(1, "her_repr")
         [] name = "str" -> Builtin(1, "her_str")
         [] name = "atoi" -> Builtin(1, "her_atoi")
         [] name = "<heng>" -> Builtin(-1, "her_quit")
         [] name = "<xiao><zuo><wen>" -> Builtin(-1, "her_output")
         [] name = "<ju><jiao>" -> Builtin(1, "her_print")
         [] name = "<fu><yong>" -> Builtin(1, "her_repr")
         [] name = "<shu><tong>" -> Builtin(1, "her_str")
         [] name = "<mo><ling>" -> Builtin(1, "her_atoi")]

\* Env::from(new_builtins()) with the print-like builtin rerouted to the
\* closure that hands each argument to the print callback of the host.
RootEnv ==
    <<"Env", [new_builtins EXCEPT !["<xiao><zuo><wen>"] = Builtin(-1, "eval::{closure}")]>>

\* The rest of eval, given the result of parse.
eval(h, parsed) ==
    IF parsed[1] = "Err"
    THEN [h EXCEPT !.returned = TRUE, !.output = <<"text", parsed[2]>>]
    ELSE [h EXCEPT !.returned = TRUE, !.env = RootEnv, !.evaluated = parsed[2],
                   !.output = <<"evaluated", parsed[2]>>]

\* The rest of format, given the result of parse.
format(h, parsed) ==
    IF parsed[1] = "Err"
    THEN [h EXCEPT !.returned = TRUE, !.printed = Append(@, parsed[2]),
                   !.output = <<"text", "">>]
    ELSE [h EXCEPT !.returned = TRUE, !.output = <<"formatted", parsed[2]>>]

-----------------------------------------------------------------------------
(* The object model of src/evaluator/object.rs.  An Object is a tuple whose *)
(* first element is the name of the variant.  An i64 is written as its      *)
(* decimal numeral ("-3", "0", "9223372036854775807"), as in Token::Int.    *)
(* The entries of a Hash are listed in the iteration order of the HashMap.  *)
(* The environment a Func captures is the handle of a frame.                *)

Integer(numeral) == <<"Int", numeral>>

String(s) == <<"String", s>>

Bool(b) == <<"Bool", b>>

Array(objects) == <<"Array", objects>>

Hash(entries) == <<"Hash", entries>>

Func(params, body, env) == <<"Func", params, body, env>>

Null == <<"Null">>

ReturnValue(object) == <<"ReturnValue", object>>

BreakStatement == <<"BreakStatement">>

ContinueStatement == <<"ContinueStatement">>

Error(message) == <<"Error", message>>

\* lexer::unescape::escape_str: the string in quotes, a backslash before a
\* quote or a backslash.
escape_str(s) == DebugStr(s)

RECURSIVE Joined(_, _, _)
Joined(texts, i, separator) ==
    IF i > Len(texts) THEN ""
    ELSE (IF i > 1 THEN separator ELSE "") \o texts[i] \o Joined(texts, i + 1, separator)

\* U+554A eight times.
Wail == "<a><a><a><a><a><a><a><a>"

\* impl fmt::Display for Object
RECURSIVE ObjectDisplay(_)
ObjectDisplay(o) ==
    CASE o[1] = "Int" -> o[2]
      [] o[1] = "String" -> escape_str(o[2])
      [] o[1] = "Bool" -> IF o[2] THEN "true" ELSE "false"
      [] o[1] = "Array" ->
           "[" \o Joined([i \in 1..Len(o[2]) |-> ObjectDisplay(o[2][i])], 1, ", ") \o "]"
      [] o[1] = "Hash" ->
           "{" \o Joined([i \in 1..Len(o[2]) |->
                            ObjectDisplay(o[2][i][1]) \o ": " \o ObjectDisplay(o[2][i][2])],
                         1, ", ") \o "}"
      [] o[1] = "Func" -> "fn(" \o Joined(o[2], 1, ", ") \o ") { ... }"
      [] o[1] = "Builtin" -> "[builtin function]"
      [] o[1] = "Null" -> "null"
      [] o[1] = "BreakStatement" -> "[break statement]"
      [] o[1] = "ContinueStatement" -> "[continue statement]"
      [] o[1] = "ReturnValue" -> "ReturnValue(" \o ObjectDisplay(o[2]) \o ")"
      [] o[1] = "Error" -> Wail \o "(" \o o[2] \o ")"

\* The derived Debug form of an Object; the body and the environment of a
\* Func and the address of a Builtin are left out.
RECURSIVE ObjectDebug(_)
ObjectDebug(o) ==
    CASE o[1] \in {"Int", "ReturnValue"} ->
           o[1] \o "(" \o (IF o[1] = "Int" THEN o[2] ELSE ObjectDebug(o[2])) \o ")"
      [] o[1] \in {"String", "Error"} -> o[1] \o "(" \o DebugStr(o[2]) \o ")"
      [] o[1] = "Bool" -> IF o[2] THEN "Bool(true)" ELSE "Bool(false)"
      [] o[1] = "Array" ->
           "Array([" \o Joined([i \in 1..Len(o[2]) |-> ObjectDebug(o[2][i])], 1, ", ")
             \o "])"
      [] o[1] = "Hash" ->
           "Hash({" \o Joined([i \in 1..Len(o[2]) |->
                                 ObjectDebug(o[2][i][1]) \o ": " \o ObjectDebug(o[2][i][2])],
                              1, ", ") \o "})"
      [] o[1] = "Func" -> "Func(..)"
      [] o[1] = "Builtin" -> "Builtin(..)"
      [] OTHER -> o[1]

-----------------------------------------------------------------------------
(* The builtins of src/evaluator/builtins.rs.  A call returns an Object,    *)
(* or <<"Exit", code>> when it ended the process, or IndexPanic when it     *)
(* read an argument the argument list does not have.  The grave accent     *)
(* around a name in a message is written as an apostrophe.                  *)

IndexPanic == <<"Panic", "index out of bounds">>

Exit(code) == <<"Exit", code>>

\* String::len: the number of bytes; the strings of the model that reach it
\* are ASCII, one byte a character.
StrLen(s) == ToString(Len(s))

monkey_len(args) ==
    IF Len(args) < 1 THEN IndexPanic
    ELSE CASE args[1][1] = "String" -> Integer(StrLen(args[1][2]))
           [] args[1][1] = "Array" -> Integer(ToString(Len(args[1][2])))
           [] OTHER -> Error("argument to 'len' not supported, got " \o ObjectDisplay(args[1]))

monkey_first(args) ==
    IF Len(args) < 1 THEN IndexPanic
    ELSE IF args[1][1] = "Array"
    THEN (IF args[1][2] # <<>> THEN args[1][2][1] ELSE Null)
    ELSE Error("argument to 'first' must be array. got " \o ObjectDisplay(args[1]))

monkey_last(args) ==
    IF Len(args) < 1 THEN IndexPanic
    ELSE IF args[1][1] = "Array"
    THEN (IF args[1][2] # <<>> THEN args[1][2][Len(args[1][2])] ELSE Null)
    ELSE Error("argument to 'last' must be array. got " \o ObjectDisplay(args[1]))

monkey_rest(args) ==
    IF Len(args) < 1 THEN IndexPanic
    ELSE IF args[1][1] = "Array"
    THEN (IF args[1][2] # <<>> THEN Array(Tail(args[1][2])) ELSE Null)
    ELSE Error("argument to 'rest' must be array. got " \o ObjectDisplay(args[1]))

\* Defect: the pushed element is read one index too far.
monkey_push_off_by_one(args) ==
    IF Len(args) < 1 THEN IndexPanic
    ELSE IF args[1][1] = "Array"
    THEN (IF Len(args) < 3 THEN IndexPanic ELSE Array(Append(args[1][2], args[3])))
    ELSE Error("argument to 'push' must be array. got " \o ObjectDisplay(args[1]))

monkey_push(args) ==
    IF Len(args) < 1 THEN IndexPanic
    ELSE IF args[1][1] = "Array"
    THEN (IF Len(args) < 2 THEN IndexPanic ELSE Array(Append(args[1][2], args[2])))
    ELSE Error("argument to 'push' must be array. got " \o ObjectDisplay(args[1]))

her_str(args) ==
    IF Len(args) < 1 THEN IndexPanic
    ELSE IF args[1][1] = "String" THEN String(args[1][2])
    ELSE String(ObjectDisplay(args[1]))

her_repr(args) ==
    IF Len(args) < 1 THEN IndexPanic ELSE String(ObjectDisplay(args[1]))

her_print(args) ==
    IF Len(args) < 1 THEN IndexPanic
    ELSE IF args[1][1] = "String" THEN Null
    ELSE Error("argument to 'push' must be array. got " \o ObjectDisplay(args[1]))

her_output(args) == Null

\* The lines a builtin writes to the standard output.
Printed(func, args) ==
    CASE func = "her_print" /\ Len(args) >= 1 /\ args[1][1] = "String" -> <<args[1][2]>>
      [] func = "her_output" -> [i \in 1..Len(args) |-> ObjectDisplay(args[i])]
      [] OTHER -> <<>>

\* -i64::MIN
I64MinMagnitude == ASCII("9223372036854775808")

\* str::parse::<i64>: an optional sign and at least one digit, in the range
\* of i64; Ok(the numeral of the value) or Err.
str_parse_i64(s) ==
    LET chars == ASCII(s)
        signed == chars # <<>> /\ chars[1] \in {"+", "-"}
        negative == chars # <<>> /\ chars[1] = "-"
        digits == IF signed THEN Tail(chars) ELSE chars
        numeral == StripZeros(digits)
        limit == IF negative THEN I64MinMagnitude ELSE I64Max
    IN  IF digits = <<>> \/ \E i \in 1..Len(digits) : digits[i] \notin AsciiDigits
        THEN <<"Err", "InvalidDigit">>
        ELSE IF \/ Len(numeral) < Len(limit)
                \/ Len(numeral) = Len(limit) /\ NumeralLeq(numeral, limit)
        THEN <<"Ok", (IF negative /\ numeral # <<"0">> THEN "-" ELSE "") \o Concat(numeral)>>
        ELSE <<"Err", "Overflow">>

\* The low 32 bits of the number a run of digits denotes, as two 16-bit
\* halves <<high, low>>.
RECURSIVE Low32(_, _)
Low32(digits, acc) ==
    IF digits = <<>> THEN acc
    ELSE LET low == acc[2] * 10 + DigitValue(digits[1])
         IN  Low32(Tail(digits), <<(acc[1] * 10 + low \div 65536) % 65536, low % 65536>>)

\* `i as i32` for an i64 written as its numeral: the low 32 bits, read as a
\* two's complement number.
as_i32(numeral) ==
    LET chars == ASCII(numeral)
        negative == chars[1] = "-"
        m == Low32(IF negative THEN Tail(chars) ELSE chars, <<0, 0>>)
        bits == IF negative
                THEN <<(65535 - m[1] + (IF m[2] = 0 THEN 1 ELSE 0)) % 65536,
                       (65536 - m[2]) % 65536>>
                ELSE m
    IN  IF bits[1] >= 32768 THEN (bits[1] - 65536) * 65536 + bits[2]
        ELSE bits[1] * 65536 + bits[2]

\* Defect: a lone non-Int argument ends the process as well.
her_quit_always(args) ==
    CASE Len(args) = 0 -> Exit(0)
      [] Len(args) = 1 -> IF args[1][1] = "Int" THEN Exit(as_i32(args[1][2])) ELSE Exit(1)
      [] OTHER -> Error("Too many arguments to 'quit' (want 0 or 1, got "
                          \o ToString(Len(args)) \o ")")

her_quit(args) ==
    CASE Len(args) = 0 -> Exit(0)
      [] Len(args) = 1 ->
           IF args[1][1] = "Int" THEN Exit(as_i32(args[1][2]))
           ELSE Error("argument to 'quit' must be int. got " \o ObjectDisplay(args[1]))
      [] OTHER -> Error("Too many arguments to 'quit' (want 0 or 1, got "
                          \o ToString(Len(args)) \o ")")

her_atoi(args) ==
    IF Len(args) = 1 /\ args[1][1] = "String"
    THEN LET parsed == str_parse_i64(args[1][2])
         IN  IF parsed[1] = "Ok" THEN Integer(parsed[2])
             ELSE Error("argument to 'atoi' must be valid digits. got "
                          \o DebugStr(args[1][2]))
    ELSE Error("illegal argument to 'atoi' (want 1 string, got ["
                 \o Joined([i \in 1..Len(args) |-> ObjectDebug(args[i])], 1, ", ") \o "]")

\* A call of the native function of an Object::Builtin.
Apply(func, args) ==
    CASE func = "monkey_len" -> monkey_len(args)
      [] func = "monkey_first" -> monkey_first(args)
      [] func = "monkey_last" -> monkey_last(args)
      [] func = "monkey_rest" -> monkey_rest(args)
      [] func = "monkey_push" -> monkey_push(args)
      [] func = "her_output" -> her_output(args)
      [] func = "her_quit" -> her_quit(args)
      [] func = "her_print" -> her_print(args)
      [] func = "her_repr" -> her_repr(args)
      [] func = "her_str" -> her_str(args)
      [] func = "her_atoi" -> her_atoi(args)

-----------------------------------------------------------------------------
(* Equality and hashing of Objects.  What an Object feeds its Hasher is     *)
(* modelled as the sequence of the bytes written: the eight bytes of an     *)
(* i64 as one element naming the value, the byte of a bool, the characters  *)
(* of a str followed by 0xFF.  The hash of an Object is a function of that  *)
(* sequence.                                                                *)

\* Defect: a Hash feeds its entries, in iteration order, to the Hasher.
hash_entries(o) ==
    CASE o[1] = "Int" -> <<"i64 " \o o[2]>>
      [] o[1] = "Bool" -> <<IF o[2] THEN "u8 1" ELSE "u8 0">>
      [] o[1] = "String" -> ASCII(o[2]) \o <<"0xFF">>
      [] o[1] = "Hash" -> ASCII(ObjectDisplay(o)) \o <<"0xFF">>
      [] OTHER -> <<"0xFF">>

\* impl Hash for Object
hash(o) ==
    CASE o[1] = "Int" -> <<"i64 " \o o[2]>>
      [] o[1] = "Bool" -> <<IF o[2] THEN "u8 1" ELSE "u8 0">>
      [] o[1] = "String" -> ASCII(o[2]) \o <<"0xFF">>
      [] OTHER -> ASCII("") \o <<"0xFF">>

\* The derived PartialEq of Object: the same variant with equal fields.
\* Two HashMaps are equal when they have as many entries and every key of
\* the one has an equal value in the other.
RECURSIVE ObjectEq(_, _)
ObjectEq(x, y) ==
    /\ x[1] = y[1]
    /\ CASE x[1] \in {"Int", "String", "Bool", "Error"} -> x[2] = y[2]
         [] x[1] = "Array" ->
              /\ Len(x[2]) = Len(y[2])
              /\ \A i \in 1..Len(x[2]) : ObjectEq(x[2][i], y[2][i])
         [] x[1] = "Hash" ->
              /\ Len(x[2]) = Len(y[2])
              /\ \A i \in 1..Len(x[2]) :
                   \E j \in 1..Len(y[2]) :
                     /\ hash(x[2][i][1]) = hash(y[2][j][1])
                     /\ ObjectEq(x[2][i][1], y[2][j][1])
                     /\ ObjectEq(x[2][i][2], y[2][j][2])
         [] x[1] = "Func" -> x[2] = y[2] /\ x[3] = y[3] /\ x[4] = y[4]
         [] x[1] = "Builtin" -> x[2] = y[2] /\ x[3] = y[3]
         [] x[1] = "ReturnValue" -> ObjectEq(x[2], y[2])
         [] OTHER -> TRUE

-----------------------------------------------------------------------------
(* The environment and the evaluator, as the specification describes them.  *)
(* The environments live in an arena of frames: a frame is a binding table  *)
(* and the handle of its outer frame (0 for none); the handle of a frame is *)
(* its index.  The evaluator state s has the arena, the fuel left (a call   *)
(* and a loop iteration use one unit each), the lines printed and a trace   *)
(* of what was evaluated:                                                   *)
(*   <<"stmt", statement>>         a statement starts to be evaluated       *)
(*   <<"error", message>>          an Error is produced                     *)
(*   <<"call", frame, captured, caller>>  a function body starts            *)
(*   <<"cond", loop, truthy>>      the condition of a loop was evaluated    *)
(*   <<"body", loop, result>>      the body of a loop was evaluated         *)
(*   <<"end", loop, result>>       a loop ends                              *)
(* A loop is named by the length of the trace when it started.  Where the   *)
(* specification leaves a value open (a let, a blank line, an if without    *)
(* else whose condition fails, a loop ended by its condition), it is Null.  *)

OutOfFuel == <<"OutOfFuel">>

Res(s, v) == [s |-> s, v |-> v]

Log(s, event) == [s EXCEPT !.trace = Append(@, event)]

\* An Error is produced.
Raise(s, message) == Res(Log(s, <<"error", message>>), Error(message))

\* The results that end the evaluation of an expression at once.
Aborts(v) == v[1] \in {"Error", "Exit", "OutOfFuel"}

\* The results that end the evaluation of a statement sequence at once.
Stops(v) ==
    v[1] \in {"ReturnValue", "BreakStatement", "ContinueStatement", "Error", "Exit",
              "OutOfFuel"}

Truthy(v) == v # Null /\ v # Bool(FALSE)

\* Lookup walks the chain of frames, innermost first.
RECURSIVE Lookup(_, _, _)
Lookup(frames, env, name) ==
    IF env = 0 THEN None
    ELSE IF name \in DOMAIN frames[env].store THEN frames[env].store[name]
    ELSE Lookup(frames, frames[env].outer, name)

\* A binding is written into the frame itself.
Define(s, env, name, v) ==
    [s EXCEPT !.frames[env].store =
       [n \in DOMAIN @ \cup {name} |-> IF n = name THEN v ELSE @[n]]]

NewFrame(s, outer) == [s EXCEPT !.frames = Append(@, [store |-> <<>>, outer |-> outer])]

RECURSIVE BindParams(_, _, _, _, _)
BindParams(s, env, params, args, i) ==
    IF i > Len(params) THEN s
    ELSE BindParams(Define(s, env, params[i], args[i]), env, params, args, i + 1)

\* The number a numeral denotes; the programs evaluated keep far inside i64.
RECURSIVE Horner(_, _)
Horner(digits, acc) ==
    IF digits = <<>> THEN acc ELSE Horner(Tail(digits), acc * 10 + DigitValue(digits[1]))

Num(numeral) ==
    LET chars == ASCII(numeral)
    IN  IF chars[1] = "-" THEN 0 - Horner(Tail(chars), 0) ELSE Horner(chars, 0)

eval_prefix_expr(op, v, s) ==
    CASE op = "Not" -> Res(s, Bool(~Truthy(v)))
      [] op = "Minus" /\ v[1] = "Int" -> Res(s, Integer(ToString(0 - Num(v[2]))))
      [] op = "Plus" /\ v[1] = "Int" -> Res(s, v)
      [] OTHER -> Raise(s, "unknown operator: " \o op \o " " \o ObjectDisplay(v))

eval_infix_expr(op, x, y, s) ==
    CASE x[1] = "Int" /\ y[1] = "Int" /\ op = "Plus" ->
           Res(s, Integer(ToString(Num(x[2]) + Num(y[2]))))
      [] x[1] = "Int" /\ y[1] = "Int" /\ op = "Minus" ->
           Res(s, Integer(ToString(Num(x[2]) - Num(y[2]))))
      [] x[1] = "Int" /\ y[1] = "Int" /\ op = "Multiply" ->
           Res(s, Integer(ToString(Num(x[2]) * Num(y[2]))))
      [] x[1] = "Int" /\ y[1] = "Int" /\ op = "Divide" /\ Num(y[2]) > 0 /\ Num(x[2]) >= 0 ->
           Res(s, Integer(ToString(Num(x[2]) \div Num(y[2]))))
      [] x[1] = "Int" /\ y[1] = "Int" /\ op = "LessThan" -> Res(s, Bool(Num(x[2]) < Num(y[2])))
      [] x[1] = "Int" /\ y[1] = "Int" /\ op = "LessThanEqual" ->
           Res(s, Bool(Num(x[2]) <= Num(y[2])))
      [] x[1] = "Int" /\ y[1] = "Int" /\ op = "GreaterThan" ->
           Res(s, Bool(Num(x[2]) > Num(y[2])))
      [] x[1] = "Int" /\ y[1] = "Int" /\ op = "GreaterThanEqual" ->
           Res(s, Bool(Num(x[2]) >= Num(y[2])))
      [] x[1] = y[1] /\ op = "Equal" -> Res(s, Bool(ObjectEq(x, y)))
      [] x[1] = y[1] /\ op = "NotEqual" -> Res(s, Bool(~ObjectEq(x, y)))
      [] OTHER -> Raise(s, "unknown operator: " \o ObjectDisplay(x) \o " " \o op \o " "
                             \o ObjectDisplay(y))

eval_index_expr(x, i, s) ==
    CASE x[1] = "Array" /\ i[1] = "Int" ->
           Res(s, IF Num(i[2]) >= 0 /\ Num(i[2]) < Len(x[2]) THEN x[2][Num(i[2]) + 1] ELSE Null)
      [] x[1] = "Hash" ->
           Res(s, IF \E j \in 1..Len(x[2]) : ObjectEq(x[2][j][1], i)
                  THEN x[2][CHOOSE j \in 1..Len(x[2]) : ObjectEq(x[2][j][1], i)][2]
                  ELSE Null)
      [] OTHER -> Raise(s, "index operator not supported: " \o ObjectDisplay(x))

\* An entry of a Hash is written: a key that is there already is replaced.
Insert(entries, key, value) ==
    IF \E j \in 1..Len(entries) : ObjectEq(entries[j][1], key)
    THEN [j \in 1..Len(entries) |->
            IF ObjectEq(entries[j][1], key) THEN <<entries[j][1], value>> ELSE entries[j]]
    ELSE Append(entries, <<key, value>>)

EndLoop(s, loop, v) == Res(Log(s, <<"end", loop, v>>), v)

RECURSIVE eval_expr(_, _, _)
RECURSIVE eval_stmt(_, _, _)
RECURSIVE eval_block_stmt(_, _, _, _, _)
RECURSIVE eval_expr_list(_, _, _, _, _)
RECURSIVE eval_hash_pairs(_, _, _, _, _)
RECURSIVE eval_while_expr(_, _, _, _)
RECURSIVE apply_function(_, _, _, _)

\* Defect: a statement sequence goes on after an Error.
eval_block_stmt_past_error(stmts, i, env, s, last) ==
    IF i > Len(stmts) THEN Res(s, last)
    ELSE Bind(eval_stmt(stmts[i], env, s), LAMBDA r :
           IF Stops(r.v) /\ r.v[1] # "Error" THEN r
           ELSE eval_block_stmt(stmts, i + 1, env, r.s, r.v))

\* A statement sequence: the value of the last statement evaluated; a
\* ReturnValue, a break or continue signal and an Error end it at once.
eval_block_stmt(stmts, i, env, s, last) ==
    IF i > Len(stmts) THEN Res(s, last)
    ELSE Bind(eval_stmt(stmts[i], env, s), LAMBDA r :
           IF Stops(r.v) THEN r ELSE eval_block_stmt(stmts, i + 1, env, r.s, r.v))

eval_stmt(stmt, env, s0) ==
    Bind(Log(s0, <<"stmt", stmt>>), LAMBDA s :
      CASE stmt[1] = "Let" ->
             Bind(eval_expr(stmt[3], env, s), LAMBDA r :
               IF Aborts(r.v) THEN r ELSE Res(Define(r.s, env, stmt[2][2], r.v), Null))
        [] stmt[1] = "Return" ->
             Bind(eval_expr(stmt[2], env, s), LAMBDA r :
               IF Aborts(r.v) THEN r ELSE Res(r.s, ReturnValue(r.v)))
        [] stmt[1] = "Break" -> Res(s, BreakStatement)
        [] stmt[1] = "Continue" -> Res(s, ContinueStatement)
        [] stmt[1] = "Blank" -> Res(s, Null)
        [] stmt[1] = "Expr" -> eval_expr(stmt[2], env, s))

\* The expressions of a list, in source order: <<"List", values>>, or the
\* first result that aborts.
eval_expr_list(exprs, i, env, s, values) ==
    IF i > Len(exprs) THEN Res(s, <<"List", values>>)
    ELSE Bind(eval_expr(exprs[i], env, s), LAMBDA r :
           IF Aborts(r.v) THEN r
           ELSE eval_expr_list(exprs, i + 1, env, r.s, Append(values, r.v)))

\* The pairs of a hash literal, key then value, in source order; a key that
\* is not an Int, a Bool or a String is an Error.
eval_hash_pairs(pairs, i, env, s, entries) ==
    IF i > Len(pairs) THEN Res(s, Hash(entries))
    ELSE Bind(eval_expr(pairs[i][1], env, s), LAMBDA k :
           IF Aborts(k.v) THEN k
           ELSE IF k.v[1] \notin {"Int", "Bool", "String"}
           THEN Raise(k.s, "unusable as hash key: " \o ObjectDisplay(k.v))
           ELSE Bind(eval_expr(pairs[i][2], env, k.s), LAMBDA v :
                  IF Aborts(v.v) THEN v
                  ELSE eval_hash_pairs(pairs, i + 1, env, v.s, Insert(entries, k.v, v.v))))

\* Defect: a continue signal ends the loop like a break.
eval_while_expr_continue_breaks(e, env, s, loop) ==
    IF s.fuel = 0 THEN Res(s, OutOfFuel)
    ELSE Bind(eval_expr(e[2], env, [s EXCEPT !.fuel = @ - 1]), LAMBDA c :
           IF Aborts(c.v) THEN EndLoop(c.s, loop, c.v)
           ELSE Bind(Log(c.s, <<"cond", loop, Truthy(c.v)>>), LAMBDA s1 :
                  IF ~Truthy(c.v) THEN EndLoop(s1, loop, Null)
                  ELSE Bind(eval_block_stmt(e[3], 1, env, s1, Null), LAMBDA o :
                         Bind(Log(o.s, <<"body", loop, o.v>>), LAMBDA s2 :
                           CASE o.v[1] \in {"BreakStatement", "ContinueStatement"} ->
                                  EndLoop(s2, loop, Null)
                             [] o.v[1] \in {"ReturnValue", "Error", "Exit", "OutOfFuel"} ->
                                  EndLoop(s2, loop, o.v)
                             [] OTHER -> eval_while_expr(e, env, s2, loop)))))

\* while: the condition is evaluated before each iteration; a break signal
\* ends the loop with Null, a continue signal is swallowed, a ReturnValue
\* and an Error leave the loop as they are.
eval_while_expr(e, env, s, loop) ==
    IF s.fuel = 0 THEN Res(s, OutOfFuel)
    ELSE Bind(eval_expr(e[2], env, [s EXCEPT !.fuel = @ - 1]), LAMBDA c :
           IF Aborts(c.v) THEN EndLoop(c.s, loop, c.v)
           ELSE Bind(Log(c.s, <<"cond", loop, Truthy(c.v)>>), LAMBDA s1 :
                  IF ~Truthy(c.v) THEN EndLoop(s1, loop, Null)
                  ELSE Bind(eval_block_stmt(e[3], 1, env, s1, Null), LAMBDA o :
                         Bind(Log(o.s, <<"body", loop, o.v>>), LAMBDA s2 :
                           CASE o.v[1] = "BreakStatement" -> EndLoop(s2, loop, Null)
                             [] o.v[1] = "ContinueStatement" ->
                                  eval_while_expr(e, env, s2, loop)
                             [] o.v[1] \in {"ReturnValue", "Error", "Exit", "OutOfFuel"} ->
                                  EndLoop(s2, loop, o.v)
                             [] OTHER -> eval_while_expr(e, env, s2, loop)))))

\* The call of a Func in a new frame whose outer frame is `outer`, or of a
\* Builtin.
Invoke(f, args, outer, caller, s) ==
    CASE f[1] = "Func" ->
           IF Len(args) # Len(f[2])
           THEN Raise(s, "wrong number of arguments: " \o ToString(Len(f[2]))
                           \o " expected but " \o ToString(Len(args)) \o " given")
           ELSE IF s.fuel = 0 THEN Res(s, OutOfFuel)
           ELSE Bind(NewFrame([s EXCEPT !.fuel = @ - 1], outer), LAMBDA s1 :
                  Bind(eval_block_stmt(f[3], 1, Len(s1.frames),
                                       Log(BindParams(s1, Len(s1.frames), f[2], args, 1),
                                           <<"call", Len(s1.frames), f[4], caller>>),
                                       Null),
                       LAMBDA r : Res(r.s, IF r.v[1] = "ReturnValue" THEN r.v[2] ELSE r.v)))
      [] f[1] = "Builtin" ->
           IF f[2] >= 0 /\ Len(args) # f[2]
           THEN Raise(s, "wrong number of arguments: " \o ToString(f[2])
                           \o " expected but " \o ToString(Len(args)) \o " given")
           ELSE Bind(Apply(f[3], args), LAMBDA v :
                  IF v[1] = "Error" THEN Raise(s, v[2])
                  ELSE Res([s EXCEPT !.output = @ \o Printed(f[3], args)], v))
      [] OTHER -> Raise(s, ObjectDisplay(f) \o " is not valid function")

\* Defect: the body runs in a frame whose outer frame is the caller's.
apply_function_dynamic(f, args, caller, s) == Invoke(f, args, caller, caller, s)

\* A call: the body of a Func runs in a new frame whose outer frame is the
\* one the Func captured; a ReturnValue is unwrapped at the call boundary.
apply_function(f, args, caller, s) ==
    Invoke(f, args, IF f[1] = "Func" THEN f[4] ELSE 0, caller, s)

eval_expr(e, env, s) ==
    CASE e[1] = "Ident" ->
           Bind(Lookup(s.frames, env, e[2]), LAMBDA v :
             IF v = None THEN Raise(s, "identifier not found: " \o e[2]) ELSE Res(s, v))
      [] e[1] = "Int" -> Res(s, Integer(e[2]))
      [] e[1] = "String" -> Res(s, String(e[2]))
      [] e[1] = "Bool" -> Res(s, Bool(e[2] = "true"))
      [] e[1] = "Array" ->
           Bind(eval_expr_list(e[2], 1, env, s, <<>>), LAMBDA r :
             IF Aborts(r.v) THEN r ELSE Res(r.s, Array(r.v[2])))
      [] e[1] = "Hash" -> eval_hash_pairs(e[2], 1, env, s, <<>>)
      [] e[1] = "Prefix" ->
           Bind(eval_expr(e[3], env, s), LAMBDA r :
             IF Aborts(r.v) THEN r ELSE eval_prefix_expr(e[2], r.v, r.s))
      [] e[1] = "Infix" ->
           Bind(eval_expr(e[3], env, s), LAMBDA x :
             IF Aborts(x.v) THEN x
             ELSE Bind(eval_expr(e[4], env, x.s), LAMBDA y :
                    IF Aborts(y.v) THEN y ELSE eval_infix_expr(e[2], x.v, y.v, y.s)))
      [] e[1] = "Index" ->
           Bind(eval_expr(e[2], env, s), LAMBDA x :
             IF Aborts(x.v) THEN x
             ELSE Bind(eval_expr(e[3], env, x.s), LAMBDA i :
                    IF Aborts(i.v) THEN i ELSE eval_index_expr(x.v, i.v, i.s)))
      [] e[1] = "If" ->
           Bind(eval_expr(e[2], env, s), LAMBDA c :
             IF Aborts(c.v) THEN c
             ELSE IF Truthy(c.v) THEN eval_block_stmt(e[3], 1, env, c.s, Null)
             ELSE IF e[4] = None THEN Res(c.s, Null)
             ELSE eval_block_stmt(e[4][2], 1, env, c.s, Null))
      [] e[1] = "While" -> eval_while_expr(e, env, s, Len(s.trace))
      [] e[1] = "Func" ->
           Res(s, Func([i \in 1..Len(e[2]) |-> e[2][i][2]], e[3], env))
      [] e[1] = "Call" ->
           Bind(eval_expr(e[2], env, s), LAMBDA f :
             IF Aborts(f.v) THEN f
             ELSE Bind(eval_expr_list(e[3], 1, env, f.s, <<>>), LAMBDA r :
                    IF Aborts(r.v) THEN r ELSE apply_function(f.v, r.v[2], env, r.s)))

-----------------------------------------------------------------------------
(* Inputs.  The lexer can hand the parser any finite token sequence, an    *)
(* Eof in the middle included (a NUL character lexes to Eof and the lexer  *)
(* reads on).  Spec parses every sequence of at most MaxLen tokens of      *)
(* Alphabet, and every single-token edit of a few longer programs.         *)

MaxLen == 2

a == Ident("a")

b == Ident("b")

her == Ident("her")

One == <<"Int", "1">>

Alphabet ==
    {a, her, One, Eof, T("Illegal"), T("Blank"), T("Assign"), T("Plus"), T("Minus"),
     T("Asterisk"), T("Equal"), T("Bang"), T("Dot"), T("Comma"), T("Colon"),
     T("Semicolon"), T("Lparen"), T("Rparen"), T("Lbrace"), T("Rbrace"),
     T("Lbracket"), T("Rbracket"), T("Func"), T("Let"), T("If"), T("Else"),
     T("While"), T("Break"), T("Continue"), T("Return")}

RECURSIVE SeqsUpTo(_, _)
SeqsUpTo(S, n) ==
    IF n = 0 THEN {<<>>}
    ELSE LET shorter == SeqsUpTo(S, n - 1)
         IN  shorter \cup {Append(s, x) : s \in {t \in shorter : Len(t) = n - 1}, x \in S}

\* let a = fn(a, her) { return a + 1; };
Program1 ==
    <<T("Let"), a, T("Assign"), T("Func"), T("Lparen"), a, T("Comma"), her, T("Rparen"),
      T("Lbrace"), T("Return"), a, T("Plus"), One, T("Semicolon"), T("Rbrace"),
      T("Semicolon")>>

\* if (a == 1) { her } else { break; } b
Program2 ==
    <<T("If"), T("Lparen"), a, T("Equal"), One, T("Rparen"), T("Lbrace"), her,
      T("Rbrace"), T("Else"), T("Lbrace"), T("Break"), T("Semicolon"), T("Rbrace"), b>>

\* while (!a) { continue; let a = -a * 1 }
Program3 ==
    <<T("While"), T("Lparen"), T("Bang"), a, T("Rparen"), T("Lbrace"), T("Continue"),
      T("Semicolon"), T("Let"), a, T("Assign"), T("Minus"), a, T("Asterisk"), One,
      T("Rbrace")>>

\* {a: 1, her: [a, 1]}.her[1](a, her)
Program4 ==
    <<T("Lbrace"), a, T("Colon"), One, T("Comma"), her, T("Colon"), T("Lbracket"), a,
      T("Comma"), One, T("Rbracket"), T("Rbrace"), T("Dot"), her, T("Lbracket"), One,
      T("Rbracket"), T("Lparen"), a, T("Comma"), her, T("Rparen")>>

\* let her = a; <blank line> her
Program5 == <<T("Let"), her, T("Assign"), a, T("Semicolon"), T("Blank"), her>>

Programs == {Program1, Program2, Program3, Program4, Program5}

\* s itself, s cut after any token, s without one token, s with one token replaced.
Edits(s) ==
    {SubSeq(s, 1, i) : i \in 0..Len(s)}
      \cup {SubSeq(s, 1, i - 1) \o SubSeq(s, i + 1, Len(s)) : i \in 1..Len(s)}
      \cup {[s EXCEPT ![i] = x] : i \in 1..Len(s), x \in Alphabet}

Inputs == SeqsUpTo(Alphabet, MaxLen) \cup UNION {Edits(s) : s \in Programs}

\* Operator expressions: x op1 y op2 z over a few operands and every pair of
\* infix operators, and a prefix operator in front of a binary operator, an
\* index, a dot access and a call.
InfixTokens == {T(k) : k \in InfixKinds}

PrefixTokens == {T("Bang"), T("Minus"), T("Plus")}

Operands == {<<a>>, <<One>>, <<T("Minus"), b>>, <<b, T("Lparen"), a, T("Rparen")>>}

BinaryInputs ==
    {x \o <<op1>> \o y \o <<op2>> \o z :
        x \in Operands, y \in Operands, z \in Operands,
        op1 \in InfixTokens, op2 \in InfixTokens}

Index1 == <<T("Lbracket"), One, T("Rbracket")>>

DotB == <<T("Dot"), b>>

CallB == <<T("Lparen"), b, T("Rparen")>>

PrefixInputs ==
    {<<pre, a, op, b>> : pre \in PrefixTokens, op \in InfixTokens}
      \cup {<<pre, a>> \o post : pre \in PrefixTokens, post \in {Index1, DotB, CallB}}
      \cup {<<b, op, a>> \o post : op \in InfixTokens, post \in {Index1, DotB, CallB}}

PrecInputs == BinaryInputs \cup PrefixInputs

\* Statements with and without their trailing semicolon, at the top level
\* and as the last or an inner statement of a block.
Semi == T("Semicolon")

Statements ==
    {<<T("Let"), a, T("Assign"), One>>,
     <<T("Let"), a, T("Assign"), b, T("Plus"), One>>,
     <<T("Return"), a>>,
     <<T("Break")>>,
     <<T("Continue")>>,
     <<a>>,
     <<a, T("Plus"), b>>,
     <<b, T("Lparen"), a, T("Rparen")>>}

Followers ==
    {<<>>, <<T("Let"), b, T("Assign"), One>>, <<b>>, <<T("Return"), b>>, <<T("Blank")>>}

Wrappers == {"top", "while", "fn", "else"}

Wrap(w, body) ==
    CASE w = "top" -> body
      [] w = "while" ->
           <<T("While"), T("Lparen"), a, T("Rparen"), T("Lbrace")>> \o body
             \o <<T("Rbrace")>>
      [] w = "fn" ->
           <<T("Func"), T("Lparen"), T("Rparen"), T("Lbrace")>> \o body
             \o <<T("Rbrace")>>
      [] w = "else" ->
           <<T("If"), T("Lparen"), a, T("Rparen"), T("Lbrace"), b, T("Rbrace"),
             T("Else"), T("Lbrace")>> \o body \o <<T("Rbrace")>>

WithSemicolon(w, stmt, follower) == Wrap(w, stmt \o <<Semi>> \o follower)

WithoutSemicolon(w, stmt, follower) == Wrap(w, stmt \o follower)

SemiInputs ==
    {WithSemicolon(w, s, g) : w \in Wrappers, s \in Statements, g \in Followers}
      \cup {WithoutSemicolon(w, s, g) : w \in Wrappers, s \in Statements, g \in Followers}

\* let statements: a rejected let between statements that parse, and a let
\* of each reserved name (and of an ordinary one) to a well-formed expression.
RejectedLets ==
    {<<T("Let"), her, T("Assign"), One, Semi>>,
     <<T("Let"), Ident("woman"), T("Assign"), a, T("Plus"), One, Semi>>,
     <<T("Let"), One, T("Assign"), a, Semi>>,
     <<T("Let"), a, One, Semi>>,
     <<T("Let"), T("Assign"), One, Semi>>}

Before == {<<>>, <<a, Semi>>}

After == {<<>>, <<b, Semi>>}

RejectedInputs == {x \o r \o y : x \in Before, r \in RejectedLets, y \in After}

Expressions ==
    {<<One>>, <<a>>, <<a, T("Plus"), One>>, <<T("Minus"), a>>,
     <<T("Lparen"), a, T("Rparen")>>,
     <<b, T("Lparen"), a, T("Rparen")>>,
     <<T("Lbracket"), a, T("Comma"), One, T("Rbracket")>>,
     <<a, T("Dot"), b>>,
     <<a, T("Lbracket"), One, T("Rbracket")>>,
     <<T("Lbrace"), a, T("Colon"), One, T("Rbrace")>>,
     <<T("Func"), T("Lparen"), a, T("Rparen"), T("Lbrace"), a, T("Rbrace")>>,
     <<T("If"), T("Lparen"), a, T("Rparen"), T("Lbrace"), b, T("Rbrace"),
       T("Else"), T("Lbrace"), a, T("Rbrace")>>,
     <<T("While"), T("Lparen"), a, T("Rparen"), T("Lbrace"), b, Semi, T("Rbrace")>>}

LetInputs ==
    {<<T("Let"), Ident(name), T("Assign")>> \o e \o semi :
        name \in HER_KEY_WORDS \cup {"a"}, e \in Expressions, semi \in {<<>>, <<Semi>>}}

\* Blocks left open: a construct whose last block has no closing brace, as an
\* expression statement or the value of a let, after nothing or a statement.
\* The body is up to two fragments: statements that parse, statements that
\* are dropped, a nested block (closed or left open), and `if +`.
Fragments ==
    {<<a, Semi>>,
     <<T("Let"), b, T("Assign"), One>>,
     <<T("Return"), a, T("Plus"), One, Semi>>,
     <<T("Break"), Semi>>,
     <<T("Continue")>>,
     <<T("Blank")>>,
     <<T("Let"), One>>,
     <<T("Lparen"), a, Semi>>,
     <<T("Func"), T("Lparen"), T("Rparen"), T("Lbrace"), b, T("Rbrace")>>,
     <<T("While"), T("Lparen"), a, T("Rparen"), T("Lbrace"), b>>,
     <<T("If"), T("Plus")>>}

Bodies == {<<>>} \cup Fragments \cup {f \o g : f \in Fragments, g \in Fragments}

Openers == {"if", "else", "while", "fn"}

Header(w) ==
    CASE w = "if" -> <<T("If"), T("Lparen"), a, T("Rparen"), T("Lbrace")>>
      [] w = "else" ->
           <<T("If"), T("Lparen"), a, T("Rparen"), T("Lbrace"), b, T("Rbrace"),
             T("Else"), T("Lbrace")>>
      [] w = "while" -> <<T("While"), T("Lparen"), a, T("Rparen"), T("Lbrace")>>
      [] w = "fn" -> <<T("Func"), T("Lparen"), b, T("Rparen"), T("Lbrace")>>

Positions == {<<>>, <<T("Let"), a, T("Assign")>>}

Unclosed(x, l, w, body) == x \o l \o Header(w) \o body

UnclosedInputs ==
    {Unclosed(x, l, w, body) : x \in Before, l \in Positions, w \in Openers, body \in Bodies}

\* Source texts with a dot access e.k, and the same texts with e["k"]: e a
\* few expressions, k a few identifiers (U+0065 U+0301 among them), alone,
\* as an operand, under a prefix operator, as a call target, chained, and as
\* the value of a let.
DotSubjects ==
    {ASCII("a"), ASCII("f(1)"), ASCII("[a, 1]"), ASCII("a.c"), ASCII("(a + 1)"),
     ASCII("a[0]")}

DotKeys == {ASCII("b"), ASCII("k1"), ASCII("her"), <<"<nv>">>, <<"e", "<acute>">>}

DotContexts ==
    {<<ASCII(""), ASCII("")>>,
     <<ASCII("1 + "), ASCII(" * 2")>>,
     <<ASCII("-"), ASCII("")>>,
     <<ASCII(""), ASCII("(a)")>>,
     <<ASCII(""), ASCII(".j")>>,
     <<ASCII("let x = "), ASCII(";")>>}

DotText(c, e, k) == c[1] \o e \o <<".">> \o k \o c[2]

BracketText(c, e, k) == c[1] \o e \o <<"[", Quote>> \o k \o <<Quote, "]">> \o c[2]

DotTexts ==
    {DotText(c, e, k) : c \in DotContexts, e \in DotSubjects, k \in DotKeys}
      \cup {BracketText(c, e, k) : c \in DotContexts, e \in DotSubjects, k \in DotKeys}

\* Programs as templates: text chunks and keyword occurrences, each
\* occurrence to be spelled in the plain or in the localized lexicon.
Kw(word) == <<"kw", word>>

Txt(text) == <<"txt", text>>

\* let f = fn(x) { if (x == true) { return 1 } else { return false } };
Template1 ==
    <<Kw("let"), Txt(" f = "), Kw("fn"), Txt("(x) { "), Kw("if"), Txt(" (x == "),
      Kw("true"), Txt(") { "), Kw("return"), Txt(" 1 } "), Kw("else"), Txt(" { "),
      Kw("return"), Txt(" "), Kw("false"), Txt(" } };")>>

\* while(true){if(a){break;}}a.if
Template2 ==
    <<Kw("while"), Txt("("), Kw("true"), Txt("){"), Kw("if"), Txt("(a){"), Kw("break"),
      Txt(";}}a."), Kw("if")>>

\* else let\n\nreturn
Template3 == <<Kw("else"), Txt(" "), Kw("let"), Txt("\n\n"), Kw("return")>>

Templates == {Template1, Template2, Template3}

\* The localized spellings of a plain keyword.
Localized(word) ==
    CASE word = "fn" -> {<<"<xiang>", "<yao>", "<ni>", "<yi>", "<ge>", "<tai>", "<du>">>}
      [] word = "let" -> {<<"<bao>", "<bao>", "<ni>", "<shi>", "<yi>", "<ge>">>}
      [] word = "true" ->
           {<<"<na>", "<me>", "<pu>", "<tong>", "<que>", "<na>", "<me>", "<zi>", "<xin>">>}
      [] word = "false" -> {<<"<na>", "<za>", "<le>">>}
      [] word = "if" ->
           {<<"<jie>", "<mei>", "<men>", "<jue>", "<de>", "<ne>">>,
            <<"<pao>", "<kai>", "<shi2>", "<shi3>", "<bu>", "<tan>">>}
      [] word = "else" ->
           {<<"<na>", "<neng>", "<yi>", "<yang>", "<ma>">>,
            <<"<wo>", "<jie2>", "<shou>", "<bu>", "<deng>", "<yu>", "<wo>", "<tong2>",
              "<yi2>">>}
      [] word = "while" -> {<<"<ni>", "<zai>", "<shuo>", "<yi>", "<bian>">>}
      [] word = "break" -> {<<"<xia>", "<tou>">>}
      [] word = "return" -> {<<"<fan>", "<shou2>", "<ju>", "<bao2>">>}

PlainChunk(chunk) == ASCII(chunk[2])

Spellings(chunk) ==
    IF chunk[1] = "kw" THEN {PlainChunk(chunk)} \cup Localized(chunk[2])
    ELSE {PlainChunk(chunk)}

RECURSIVE Plain(_)
Plain(template) ==
    IF template = <<>> THEN <<>> ELSE PlainChunk(template[1]) \o Plain(Tail(template))

\* Every way of spelling the keyword occurrences of a template.
RECURSIVE Renderings(_)
Renderings(template) ==
    IF template = <<>> THEN {<<>>}
    ELSE {x \o rest : x \in Spellings(template[1]), rest \in Renderings(Tail(template))}

RenderingsOf == [t \in Templates |-> Renderings(t)]

KeywordTexts == UNION {RenderingsOf[t] : t \in Templates}

\* Single words: the plain keywords, every localized literal of the keyword
\* table (no other literal of the localized lexicon lexes to a keyword
\* token), and some identifiers.
PlainKeywords ==
    {"fn", "let", "true", "false", "if", "while", "break", "continue", "else", "return"}

LocalizedOperators ==
    {<<"<wo>", "<tong2>", "<yi2>">>, <<"<wo>", "<jie2>", "<shou>">>, <<"<pin>", "<dan>">>,
     <<"<jie2>">>, <<"<cha>", "<yi3>">>, <<"<zhong>", "<cao>">>, <<"<cai>", "<lei>">>,
     <<"<bi>", "<lei>">>, <<"<wei>", "<pang>">>}

LocalizedWords ==
    UNION {Localized(w) : w \in PlainKeywords \ {"continue"}} \cup LocalizedOperators

Words ==
    {ASCII(w) : w \in PlainKeywords} \cup LocalizedWords
      \cup {ASCII("a"), ASCII("lets"), ASCII("iff"), <<"<xia>">>, <<"<xia>", "<tou>", "<tou>">>,
            <<"<ji>", "<xu>">>}

\* Separators: every non-empty text of at most MaxSeparator newlines, spaces, tabs
\* and carriage returns, at the start of the input or after a token, and
\* before a token or the end of the input.
MaxSeparator == 4

Separators == SeqsUpTo({"\n", " ", "\t", "\r"}, MaxSeparator) \ {<<>>}

SeparatorBefore == {<<>>, ASCII("a")}

SeparatorAfter == {<<>>, ASCII("b"), ASCII(";")}

SeparatorTexts ==
    {x \o sep \o y : x \in SeparatorBefore, sep \in Separators, y \in SeparatorAfter}

\* Digit runs: a digit repeated up to MaxDigits times, i64::MAX and the
\* number after it, each at the end of the input and before other text.
MaxDigits == 20

Repeat(c, n) == [i \in 1..n |-> c]

DigitRuns ==
    {Repeat(d, n) : d \in {"0", "1", "9"}, n \in 1..MaxDigits}
      \cup {I64Max, ASCII("9223372036854775808"), ASCII("0009223372036854775807"),
            ASCII("1234567890")}

NumberAfter == {<<>>, ASCII(" a"), ASCII("+1"), ASCII("a1"), ASCII(";")}

NumberTexts == {run \o rest : run \in DigitRuns, rest \in NumberAfter}

\* String literals: an opening quote followed by every text of at most
\* MaxString characters out of a letter, the backslash, the quote, n and NUL.
MaxString == 5

StringChars == {"a", "n", Backslash, Quote, NUL}

StringTexts == {<<Quote>> \o s : s \in SeqsUpTo(StringChars, MaxString)}

\* Source texts for the host interface: programs without diagnostics, with
\* one and with several, a statement dropped without a diagnostic, the
\* empty text, and a parse that aborts.
HostTexts ==
    {ASCII(""), ASCII("let a = 1; a + 1"), ASCII("fn(a, b) { a }(1, 2)"),
     ASCII("\n\n"), ASCII("let 1"), ASCII("a.1"), ASCII("1 +"), ASCII("let a 1"),
     ASCII("let her = 1;"), ASCII("(a"), ASCII("if (a) { b"), ASCII("let a 1 )"),
     ASCII("[1, 2"), ASCII("let \"x\\\"y\" = 1; let b ) + ;"), ASCII("if +"),
     ASCII("a; ) ) )")}

\* Objects of every variant, as arguments of the builtins.
ArgObjects ==
    {Integer("0"), Integer("5"), Integer("-3"), Integer("2147483647"),
     Integer("2147483648"), Integer("4294967296"), Integer("-2147483649"),
     String(""), String("ab"), String("12"), String("-7"), String("1x"),
     String("9223372036854775808"), Bool(TRUE), Bool(FALSE), Array(<<>>),
     Array(<<Integer("1"), String("a")>>), Array(<<Array(<<>>)>>), Hash(<<>>),
     Hash(<<<<String("k"), Integer("1")>>>>), Func(<<"x">>, <<>>, 0),
     Builtin(1, "monkey_len"), Null, ReturnValue(Integer("1")), BreakStatement,
     ContinueStatement, Error("e")}

ArgLists(n) == {args \in SeqsUpTo(ArgObjects, n) : Len(args) = n}

\* The names registered with a fixed arity.
FixedArity == {name \in BuiltinNames : new_builtins[name][2] >= 0}

\* Every fixed-arity builtin on every list of as many arguments as it declares.
BuiltinCalls ==
    UNION {{[name |-> name, args |-> args, result |-> None] :
              args \in ArgLists(new_builtins[name][2])} : name \in FixedArity}

\* Pairs of Objects to compare and hash: the argument Objects, and Hashes
\* that list the same entries in another order, or other entries.
HashObjects ==
    ArgObjects \cup
      {Hash(<<<<String("k"), Integer("1")>>, <<Integer("1"), Array(<<>>)>>>>),
       Hash(<<<<Integer("1"), Array(<<>>)>>, <<String("k"), Integer("1")>>>>),
       Hash(<<<<Integer("1"), Array(<<>>)>>, <<String("k"), Integer("2")>>>>),
       Hash(<<<<Array(<<>>), Integer("1")>>, <<Null, Integer("2")>>>>),
       Hash(<<<<Null, Integer("2")>>, <<Array(<<>>), Integer("1")>>>>),
       Hash(<<<<Null, Integer("1")>>, <<Array(<<>>), Integer("2")>>>>),
       Array(<<Hash(<<<<Bool(TRUE), Null>>, <<Bool(FALSE), Null>>>>)>>),
       Array(<<Hash(<<<<Bool(FALSE), Null>>, <<Bool(TRUE), Null>>>>)>>),
       Func(<<"x">>, <<>>, 1), Func(<<"y">>, <<>>, 0), Builtin(1, "monkey_first"),
       Builtin(2, "monkey_len"), Error("f"), ReturnValue(Null), String("0xFF"),
       String("i64 5")}

\* Short texts over a letter, a digit, the space, the newline, the
\* semicolon and NUL.
MaxText == 4

EofTexts == SeqsUpTo({"a", "1", " ", "\n", ";", NUL}, MaxText)

\* Identifier texts: the words above, and the localized spellings that have
\* U+4E0D written as the compatibility ideograph U+F967 (of which U+4E0D is
\* the Normalization Form C) and an e with a combining acute accent, each
\* alone and between other tokens.
Compatibility(word) == [i \in 1..Len(word) |-> IF word[i] = "<bu>" THEN "<bu*>" ELSE word[i]]

IdentWords ==
    Words \cup {Compatibility(w) : w \in LocalizedWords} \cup {<<"e", "<acute>">>, <<"<bu*>">>}

IdentTexts ==
    {x \o w \o y : x \in {<<>>, ASCII("a ")}, w \in IdentWords,
                    y \in {<<>>, ASCII(" b"), ASCII(";")}}

\* quit under both its names on every list of at most two arguments.
QuitCalls ==
    {[name |-> name, args |-> args, result |-> None] :
        name \in {"quit", "<heng>"}, args \in SeqsUpTo(ArgObjects, 2)}

\* Programs for the evaluator: closures called where another binding of the
\* captured name is in scope, and after the captured name was rebound.
ClosureTexts ==
    {ASCII("let f = fn(x) { fn() { x } }; f(5)()"),
     ASCII("let c = fn(){0}; let g = fn(){c}; let c = fn(){1}; g()()"),
     ASCII("let x = 1; let f = fn() { x }; let g = fn(x) { f() }; g(2)"),
     ASCII("let f = fn() { y }; let g = fn() { let y = 2; f() }; g()"),
     ASCII("let x = 1; let f = fn() { x }; let x = 2; f()"),
     ASCII("let mk = fn(n) { fn(m) { n + m } }; let n = 10; let m = 20; mk(1)(2)"),
     ASCII("let f = fn(a) { let g = fn() { a }; let a = a + 1; g() }; f(1)")}

\* Loops ended by the condition, by break, by return and by an Error, with
\* continue, one inside another, and one that never ends.
LoopTexts ==
    {ASCII("let i = 0; while (i < 3) { let i = i + 1; }; i"),
     ASCII("let i = 0; while (true) { let i = i + 1; if (i > 2) { break; } }; i"),
     ASCII("let i = 0; let n = 0; while (i < 4) { let i = i + 1; if (i < 3) { continue; } let n = n + 1; }; n"),
     ASCII("let f = fn() { while (true) { return 7; } 8 }; f() + 1"),
     ASCII("while (true) { zz; 1 }; 5"),
     ASCII("while (true) { }"),
     ASCII("let i = 0; while (i < 2) { let i = i + 1; while (true) { break; 1 } }; i"),
     ASCII("while (zz) { 1 }; 2"),
     ASCII("while (true) { return 3; }; 9"),
     ASCII("let i = 0; while (i < 2) { let i = i + 1; continue; let i = 9; }; i"),
     ASCII("while (false) { 1 }"),
     ASCII("let i = 0; while (true) { let i = i + 1; if (i < 3) { continue; } break; }; i")}

\* Programs that produce an Error: in a statement of the program, two and
\* three calls deep, in a loop, in an operand, an argument, an element and a
\* key, and by each rule that produces one.
ErrorTexts ==
    {ASCII("let a = 1; zz; let a = 2; a"),
     ASCII("let f = fn() { zz; 1 }; let g = fn() { f(); 2 }; g(); 3"),
     ASCII("let f = fn() { 1 + true; 1 }; let g = fn() { f() }; let h = fn() { g(); 2 }; h(); 3"),
     ASCII("1 + true; 2"), ASCII("len(1, 2); 5"), ASCII("len(1); 5"),
     ASCII("let i = 0; while (i < 3) { let i = i + 1; if (i == 2) { zz } }; 9"),
     ASCII("[1, zz, 2]; 3"), ASCII("{1: zz}; 3"), ASCII("{[1]: 2}; 3"), ASCII("5(1); 3"),
     ASCII("fn(x) { x }(); 3"), ASCII("-true; 3"), ASCII("if (zz) { 1 } else { 2 }; 3"),
     ASCII("zz + yy; 3"), ASCII("len(zz, yy)"), ASCII("1[0]; 3"), ASCII("let a = zz; a"),
     ASCII("return zz; 3"), ASCII("[1, 2][5]"), ASCII("{1: 2}[1]"), ASCII("!5"),
     ASCII("if (1 > 2) { 1 } else { return 4; }; 5"), ASCII("if (false) { 1 }"),
     ASCII("break; 1"), ASCII("")}

EvalTexts == ClosureTexts \cup LoopTexts \cup ErrorTexts

HashPairs ==
    {[name |-> "hash", args |-> <<x, y>>, result |-> None] :
        x \in HashObjects, y \in HashObjects}

-----------------------------------------------------------------------------
(* The parse as a state machine: one step per iteration of the statement   *)
(* loop of Parser::parse.                                                  *)

\* No native function is being called.
NoCall == [name |-> "", args |-> <<>>, result |-> None]

\* No Evaluator has been made.
NotStarted == None

\* Calls and loop iterations an evaluation may make.
MaxFuel == 12

\* Evaluator::new on the builtins: the root frame holds them, and the
\* statements of the program are evaluated in it.
NewEvaluator ==
    [frames |-> <<[store |-> new_builtins, outer |-> 0]>>, trace |-> <<>>, fuel |-> MaxFuel,
     output |-> <<>>, next |-> 1, result |-> Null]

\* The parser on a token stream.
InitOn(inputs) ==
    /\ parser \in {NewParser(toks) : toks \in inputs}
    /\ program = <<>>
    /\ pc = "parse"
    /\ lexer = Lexer_new(<<>>)
    /\ tokens = parser.toks
    /\ host = Called("none")
    /\ call = NoCall
    /\ evaluator = NotStarted

\* The lexer and the parser on a source text.
InitSource(texts) ==
    /\ lexer \in {Lexer_new(input) : input \in texts}
    /\ tokens = <<>>
    /\ parser = NewParser(<<>>)
    /\ program = <<>>
    /\ pc = "lex"
    /\ host = Called("none")
    /\ call = NoCall
    /\ evaluator = NotStarted

\* An entry point of the host interface called on a source text.
InitHost(texts) ==
    /\ lexer \in {Lexer_new(input) : input \in texts}
    /\ tokens = <<>>
    /\ parser = NewParser(<<>>)
    /\ program = <<>>
    /\ pc = "lex"
    /\ host \in {Called("eval"), Called("format")}
    /\ call = NoCall
    /\ evaluator = NotStarted

Init == InitOn(Inputs)

ParseLoop ==
    /\ pc = "parse"
    /\ ~current_token_is(parser, "Eof")
    /\ \E r \in {StmtIter(parser, program)} :
          /\ parser' = r.p
          /\ program' = r.node
          /\ pc' = IF r.p.panicked THEN "panicked" ELSE "parse"
    /\ UNCHANGED <<lexer, tokens, host, call, evaluator>>

ParseReturn ==
    /\ pc = "parse"
    /\ current_token_is(parser, "Eof")
    /\ pc' = "done"
    /\ UNCHANGED <<lexer, tokens, parser, program, host, call, evaluator>>

Next == ParseLoop \/ ParseReturn

\* Calls of next_token made after the Eof of the end of the input.
MaxCallsAfterEof == 2

\* One call of Lexer::next_token.
NextToken ==
    /\ pc = "lex"
    /\ ~lexer.panicked
    /\ lexer.pos <= Len(lexer.input) + MaxCallsAfterEof
    /\ \E r \in {Lexer_next_token(lexer)} :
          /\ lexer' = r.l
          /\ tokens' = Append(tokens, r.tok)
    /\ UNCHANGED <<parser, program, pc, host, call, evaluator>>

\* Parser::new on the lexer, once the tokens of the whole input are known.
StartParse ==
    /\ pc = "lex"
    /\ AtEnd(lexer) \/ lexer.panicked
    /\ parser' = NewParser(tokens)
    /\ pc' = IF parser'.panicked THEN "panicked" ELSE "parse"
    /\ UNCHANGED <<lexer, tokens, program, host, call, evaluator>>

NextSource == NextToken \/ StartParse \/ ParseLoop \/ ParseReturn

\* eval of the host interface, from the return of parser.parse() on.
Eval ==
    /\ pc = "done"
    /\ host.entry = "eval"
    /\ ~host.returned
    /\ host' = eval(host, wasm_parse(parser, program))
    /\ UNCHANGED <<lexer, tokens, parser, program, pc, call, evaluator>>

\* format of the host interface, from the return of parser.parse() on.
Format ==
    /\ pc = "done"
    /\ host.entry = "format"
    /\ ~host.returned
    /\ host' = format(host, wasm_parse(parser, program))
    /\ UNCHANGED <<lexer, tokens, parser, program, pc, call, evaluator>>

NextHost == NextSource \/ Eval \/ Format

\* A native function about to be called on an argument list.
InitCall(calls) ==
    /\ lexer = Lexer_new(<<>>)
    /\ tokens = <<>>
    /\ parser = NewParser(<<>>)
    /\ program = <<>>
    /\ pc = "call"
    /\ host = Called("none")
    /\ call \in calls
    /\ evaluator = NotStarted

\* The call of the function registered under call.name: it returns an
\* Object, or ends the process, or panics.
CallBuiltin ==
    /\ pc = "call"
    /\ call.name \in BuiltinNames
    /\ \E r \in {Apply(new_builtins[call.name][3], call.args)} :
          /\ call' = [call EXCEPT !.result = r]
          /\ pc' = CASE r[1] = "Exit" -> "exited"
                     [] r[1] = "Panic" -> "panicked"
                     [] OTHER -> "returned"
    /\ UNCHANGED <<lexer, tokens, parser, program, host, evaluator>>

Spec == Init /\ [][Next]_vars

\* The loop of Parser::parse is plain sequential code: it keeps running.
FairSpec == Spec /\ WF_vars(Next)

SpecPrec == InitOn(PrecInputs) /\ [][Next]_vars

SpecSemi == InitOn(SemiInputs) /\ [][Next]_vars

SpecLet == InitOn(RejectedInputs \cup LetInputs) /\ [][Next]_vars

SpecBlock == InitOn(UnclosedInputs) /\ [][Next]_vars

SpecDot == InitSource(DotTexts) /\ [][NextSource]_vars

SpecKeywords == InitSource(KeywordTexts) /\ [][NextSource]_vars

SpecWords == InitSource(Words) /\ [][NextSource]_vars

SpecBlank == InitSource(SeparatorTexts) /\ [][NextSource]_vars

SpecNumbers == InitSource(NumberTexts) /\ [][NextSource]_vars

SpecStrings == InitSource(StringTexts) /\ [][NextSource]_vars

SpecHost == InitHost(HostTexts) /\ [][NextHost]_vars

\* Two Objects are compared with == and each is hashed.
Compare ==
    /\ pc = "call"
    /\ call.name = "hash"
    /\ call' = [call EXCEPT !.result = <<ObjectEq(call.args[1], call.args[2]),
                                         hash(call.args[1]), hash(call.args[2])>>]
    /\ pc' = "returned"
    /\ UNCHANGED <<lexer, tokens, parser, program, host, evaluator>>

SpecHash == InitCall(HashPairs) /\ [][Compare]_vars

SpecEof == InitSource(EofTexts) /\ [][NextSource]_vars

SpecIdents == InitSource(IdentTexts) /\ [][NextSource]_vars

SpecQuit == InitCall(QuitCalls) /\ [][CallBuiltin]_vars

\* An Evaluator is made for a program that parsed without a diagnostic.
StartEval ==
    /\ pc = "done"
    /\ host.entry = "none"
    /\ wasm_parse(parser, program)[1] = "Ok"
    /\ evaluator' = NewEvaluator
    /\ pc' = IF program = <<>> THEN "evaluated" ELSE "eval"
    /\ UNCHANGED <<lexer, tokens, parser, program, host, call>>

\* Evaluator::eval, one statement of the program per step: a ReturnValue is
\* unwrapped and ends the evaluation, and so does an Error.
EvalStmt ==
    /\ pc = "eval"
    /\ \E r \in {eval_stmt(program[evaluator.next], 1, evaluator)} :
          /\ evaluator' = [r.s EXCEPT !.next = @ + 1,
                                      !.result = IF r.v[1] = "ReturnValue" THEN r.v[2]
                                                 ELSE r.v]
          /\ pc' = CASE r.v[1] = "Exit" -> "exited"
                     [] r.v[1] = "OutOfFuel" -> "diverged"
                     [] Stops(r.v) \/ evaluator.next = Len(program) -> "evaluated"
                     [] OTHER -> "eval"
    /\ UNCHANGED <<lexer, tokens, parser, program, host, call>>

NextEval == NextSource \/ StartEval \/ EvalStmt

SpecEval == InitSource(EvalTexts) /\ [][NextEval]_vars

SpecBuiltins == InitCall(BuiltinCalls) /\ [][CallBuiltin]_vars

-----------------------------------------------------------------------------
(* Claims                                                                  *)

HasKind(errors, k) == \E i \in 1..Len(errors) : errors[i][1] = k

\* C1: Parser::parse never aborts: on every token stream it returns
\* normally, also when a prefix handler yielded no node and an infix, `[`,
\* `.` or `(` token follows.
C1_ParseNeverAborts == pc # "panicked"

\* C2: whenever a statement or sub-expression handler returned no node
\* during the parse, the diagnostic list at the end of the parse is
\* non-empty.
C2_FailureIsDiagnosed == (pc = "done" /\ parser.dropped > 0) => parser.errors # <<>>

ParsesTo(expr) ==
    Outcome(parser, program) =
        [panicked |-> FALSE, program |-> <<<<"Expr", expr>>>>, errors |-> <<>>]

\* The expression an operand parses to when it stands alone.
Node(operand) == Parse(operand).program[1][2]

InfixNode(op, left, right) == <<"Infix", InfixOf(op), left, right>>

\* The precedence levels as the claims give them.
Level(op) ==
    CASE kind(op) \in {"Equal", "NotEqual"} -> "Equals"
      [] kind(op) \in {"LessThan", "LessThanEqual", "GreaterThan", "GreaterThanEqual"}
           -> "LessGreater"
      [] kind(op) \in {"Plus", "Minus"} -> "Sum"
      [] kind(op) \in {"Asterisk", "Slash"} -> "Product"

\* toks is x op1 y op2 z for the operands x, y, z and two infix operators.
IsBinary(toks, x, y, z) ==
    LET i == Len(x) + 1
        j == i + Len(y) + 1
    IN  /\ Len(toks) = j + Len(z)
        /\ SubSeq(toks, 1, i - 1) = x
        /\ SubSeq(toks, i + 1, j - 1) = y
        /\ SubSeq(toks, j + 1, Len(toks)) = z
        /\ toks[i] \in InfixTokens
        /\ toks[j] \in InfixTokens

Op1(toks, x) == toks[Len(x) + 1]

Op2(toks, x, y) == toks[Len(x) + Len(y) + 2]

\* C4: in x lo y hi z the tighter operator hi takes y and z, in x hi y lo z
\* it takes x and y, for Equals < LessGreater < Sum < Product.
C4_Precedence ==
    pc = "done" =>
      \A x \in Operands, y \in Operands, z \in Operands :
        IsBinary(parser.toks, x, y, z) =>
          LET op1 == Op1(parser.toks, x)
              op2 == Op2(parser.toks, x, y)
          IN  /\ Rank(Level(op1)) < Rank(Level(op2)) =>
                   ParsesTo(InfixNode(op1, Node(x), InfixNode(op2, Node(y), Node(z))))
              /\ Rank(Level(op1)) > Rank(Level(op2)) =>
                   ParsesTo(InfixNode(op2, InfixNode(op1, Node(x), Node(y)), Node(z)))

\* a + 1 * a and a * 1 + a have been parsed.
C4_Witness ==
    /\ pc = "done"
    /\ parser.toks \in {<<a, T("Plus"), One, T("Asterisk"), a>>,
                         <<a, T("Asterisk"), One, T("Plus"), a>>}
    /\ Len(program) = 1

\* C5: two infix operators of the same precedence level associate to the
\* left: x op1 y op2 z is (x op1 y) op2 z.
C5_LeftAssociative ==
    pc = "done" =>
      \A x \in Operands, y \in Operands, z \in Operands :
        IsBinary(parser.toks, x, y, z) =>
          LET op1 == Op1(parser.toks, x)
              op2 == Op2(parser.toks, x, y)
          IN  Level(op1) = Level(op2) =>
                ParsesTo(InfixNode(op2, InfixNode(op1, Node(x), Node(y)), Node(z)))

\* a + 1 - a has been parsed.
C5_Witness ==
    /\ pc = "done"
    /\ parser.toks = <<a, T("Plus"), One, T("Minus"), a>>
    /\ Len(program) = 1

PrefixNode(pre, operand) == <<"Prefix", PrefixOf(pre), operand>>

\* What the postfix forms [1], .b and (b) make of the expression e.
Postfixed(e, post) ==
    CASE post = Index1 -> <<"Index", e, <<"Int", "1">>>>
      [] post = DotB -> <<"Index", e, <<"String", "b">>>>
      [] post = CallB -> <<"Call", e, <<<<"Ident", "b">>>>>>

\* C6: a prefix operator binds tighter than every binary operator and
\* looser than index, dot and call; an index, dot or call after the right
\* operand of a binary operator applies to that operand alone.
C6_PrefixBinding ==
    pc = "done" =>
      /\ \A pre \in PrefixTokens, op \in InfixTokens :
            parser.toks = <<pre, a, op, b>> =>
              ParsesTo(InfixNode(op, PrefixNode(pre, <<"Ident", "a">>), <<"Ident", "b">>))
      /\ \A pre \in PrefixTokens, post \in {Index1, DotB, CallB} :
            parser.toks = <<pre, a>> \o post =>
              ParsesTo(PrefixNode(pre, Postfixed(<<"Ident", "a">>, post)))
      /\ \A op \in InfixTokens, post \in {Index1, DotB, CallB} :
            parser.toks = <<b, op, a>> \o post =>
              ParsesTo(InfixNode(op, <<"Ident", "b">>, Postfixed(<<"Ident", "a">>, post)))

\* -a * b, -a[1] and b * a(b) have been parsed.
C6_Witness ==
    /\ pc = "done"
    /\ parser.toks \in {<<T("Minus"), a, T("Asterisk"), b>>,
                         <<T("Minus"), a>> \o Index1,
                         <<b, T("Asterisk"), a>> \o CallB}
    /\ Len(program) = 1

\* C7: a statement parsed with its trailing semicolon and the same statement
\* parsed with the semicolon removed give the same Program and the same
\* diagnostics, before another statement, before the closing brace of the
\* block and at the end of the input.
C7_SemicolonOptional ==
    pc = "done" =>
      \A w \in Wrappers, s \in Statements, g \in Followers :
        parser.toks = WithSemicolon(w, s, g) =>
          Outcome(parser, program) = Parse(WithoutSemicolon(w, s, g))

\* C8: a rejected let leaves nothing in the Program: the Program of
\* x <rejected let> y is the Program of x y.
C8_RejectedContributesNothing ==
    pc = "done" =>
      \A x \in Before, r \in RejectedLets, y \in After :
        parser.toks = x \o r \o y => program = Parse(x \o y).program

IsLetOf(toks, i, names) ==
    /\ i + 2 <= Len(toks)
    /\ toks[i] = T("Let")
    /\ kind(toks[i + 1]) = "Ident"
    /\ toks[i + 1][2] \in names
    /\ toks[i + 2] = T("Assign")

HasReservedLet(toks) == \E i \in 1..Len(toks) : IsLetOf(toks, i, HER_KEY_WORDS)

\* The same program with an ordinary name, used nowhere else in the inputs,
\* in place of each reserved name.
Ordinary(name) == IF name \in HER_KEY_WORDS THEN "c" ELSE name

RenameToken(tok) == IF kind(tok) = "Ident" THEN Ident(Ordinary(tok[2])) ELSE tok

RenameTokens(toks) == [i \in 1..Len(toks) |-> RenameToken(toks[i])]

\* The renaming carried through an AST.  The inputs of Spec hold no string
\* literal, so every String node is the key of a dot access.
RECURSIVE RenameNode(_)
RenameNodes(nodes) == [i \in 1..Len(nodes) |-> RenameNode(nodes[i])]

RenameNode(n) ==
    CASE n[1] \in {"Ident", "String"} -> <<n[1], Ordinary(n[2])>>
      [] n[1] = "Array" -> <<"Array", RenameNodes(n[2])>>
      [] n[1] = "Hash" ->
           <<"Hash", [i \in 1..Len(n[2]) |->
                        <<RenameNode(n[2][i][1]), RenameNode(n[2][i][2])>>]>>
      [] n[1] = "Prefix" -> <<"Prefix", n[2], RenameNode(n[3])>>
      [] n[1] = "Infix" -> <<"Infix", n[2], RenameNode(n[3]), RenameNode(n[4])>>
      [] n[1] = "Index" -> <<"Index", RenameNode(n[2]), RenameNode(n[3])>>
      [] n[1] = "If" ->
           <<"If", RenameNode(n[2]), RenameNodes(n[3]),
             IF n[4] = None THEN None ELSE <<"Some", RenameNodes(n[4][2])>>>>
      [] n[1] = "While" -> <<"While", RenameNode(n[2]), RenameNodes(n[3])>>
      [] n[1] = "Func" -> <<"Func", RenameNodes(n[2]), RenameNodes(n[3])>>
      [] n[1] = "Call" -> <<"Call", RenameNode(n[2]), RenameNodes(n[3])>>
      [] n[1] = "Let" -> <<"Let", RenameNode(n[2]), RenameNode(n[3])>>
      [] n[1] \in {"Return", "Expr"} -> <<n[1], RenameNode(n[2])>>
      [] OTHER -> n

RenameError(e) ==
    IF e[1] = "UnexpectedToken" THEN UnexpectedToken(e[2], RenameToken(e[3])) ELSE e

RenameOutcome(o) ==
    [panicked |-> o.panicked,
     program |-> RenameNodes(o.program),
     errors |-> [i \in 1..Len(o.errors) |-> RenameError(o.errors[i])]]

\* C10: the reserved-name diagnostic is recorded only for let <reserved> =;
\* a program without one parses as it does with ordinary names instead.
C10_ReservedOnlyInLet ==
    /\ HasKind(parser.errors, "HerUnexpectedToken") => HasReservedLet(parser.toks)
    /\ (pc \in {"done", "panicked"} /\ ~HasReservedLet(parser.toks)) =>
          RenameOutcome(Outcome(parser, program)) = Parse(RenameTokens(parser.toks))

\* {a: 1, her: [a, 1]}.her[1](a, her) has been parsed: a reserved name as a
\* hash key, as the key of a dot access and as a call argument.
C10_Witness ==
    /\ pc = "done"
    /\ parser.toks = Program4
    /\ Len(program) = 1
    /\ parser.errors = <<>>

\* The node of the construct opened by Header(w) with the last block block.
Construct(w, block) ==
    CASE w = "if" -> <<"If", <<"Ident", "a">>, block, None>>
      [] w = "else" ->
           <<"If", <<"Ident", "a">>, <<<<"Expr", <<"Ident", "b">>>>>>, <<"Some", block>>>>
      [] w = "while" -> <<"While", <<"Ident", "a">>, block>>
      [] w = "fn" -> <<"Func", <<<<"Ident", "b">>>>, block>>

Positioned(l, node) == IF l = <<>> THEN <<"Expr", node>> ELSE <<"Let", <<"Ident", "a">>, node>>

ExpectsRbrace(errors) ==
    \E i \in 1..Len(errors) :
        errors[i][1] = "UnexpectedToken" /\ errors[i][2] = T("Rbrace")

\* C11: when the input ends inside the block of an if, else, while or fn,
\* the parse returns with a diagnostic expecting `}` recorded, and the
\* Program is the statements before the construct followed by the construct
\* holding exactly the statements of its block.
C11_UnclosedBlock ==
    pc \in {"done", "panicked"} =>
      \A x \in Before, l \in Positions, w \in Openers :
        LET head == x \o l \o Header(w)
            toks == parser.toks
            body == SubSeq(toks, Len(head) + 1, Len(toks))
        IN  (Len(toks) >= Len(head) /\ SubSeq(toks, 1, Len(head)) = head
               /\ body \in Bodies) =>
              /\ pc = "done"
              /\ ExpectsRbrace(parser.errors)
              /\ program = Parse(x).program
                             \o <<Positioned(l, Construct(w, Parse(body).program))>>

\* What the parser makes of a source text.
ParseSource(input) == Parse(Tokenize(input))

\* C12: e.k parses to the AST of e["k"], for every expression e and
\* identifier k, wherever the access stands.
C12_DotIsIndex ==
    pc \in {"done", "panicked"} =>
      \A c \in DotContexts, e \in DotSubjects, k \in DotKeys :
        lexer.input = DotText(c, e, k) =>
          Outcome(parser, program) = ParseSource(BracketText(c, e, k))

\* The tokens and the parse of a template in the plain spelling.
PlainTokens == [t \in Templates |-> Tokenize(Plain(t))]

PlainOutcome == [t \in Templates |-> ParseSource(Plain(t))]

\* C13: a program with the keyword occurrences spelled in the localized
\* lexicon gives, call by call, the tokens of the program with the plain
\* spellings, and the same Program and diagnostics.
C13_LexiconsEquivalent ==
    \A t \in Templates :
      lexer.input \in RenderingsOf[t] =>
        /\ \A i \in 1..Len(tokens) : tokens[i] = TokAt(PlainTokens[t], i)
        /\ pc \in {"done", "panicked"} => Outcome(parser, program) = PlainOutcome[t]

\* Template1 with the localized spelling of every keyword has been parsed.
C13_Witness ==
    /\ pc = "done"
    /\ lexer.input \in RenderingsOf[Template1]
    /\ \A i \in 1..Len(lexer.input) : lexer.input[i] \notin {"l", "i", "r", "t"}
    /\ Len(program) = 1
    /\ program[1][1] = "Let"

\* C14: every plain keyword has a localized spelling that lexes to the
\* token the plain spelling lexes to.
C14_EveryKeywordDual ==
    \A w \in PlainKeywords :
      (lexer.input = ASCII(w) /\ tokens # <<>>) =>
        \E s \in LocalizedWords : Tokenize(s) = <<tokens[1]>>

\* The Blank tokens of a separator: a run of n adjacent newlines has n - 1
\* places where a newline is directly followed by a newline.
ExpectedBlanks(sep) ==
    Cardinality({i \in 1..(Len(sep) - 1) : sep[i] = "\n" /\ sep[i + 1] = "\n"})

Blanks(n) == [i \in 1..n |-> T("Blank")]

\* C15: between two tokens, a run of n adjacent newlines gives n - 1 Blank
\* tokens, and newlines set apart by other whitespace give none.
C15_BlankLines ==
    AtEnd(lexer) =>
      \A x \in SeparatorBefore, y \in SeparatorAfter :
        LET sep == SubSeq(lexer.input, Len(x) + 1, Len(lexer.input) - Len(y))
        IN  (lexer.input = x \o sep \o y /\ sep \in Separators) =>
              \A i \in 1..(Len(x) + ExpectedBlanks(sep) + Len(y) + 1) :
                tokens[i] = TokAt(Tokenize(x) \o Blanks(ExpectedBlanks(sep)) \o Tokenize(y), i)

\* a, three newlines, b: two Blank tokens.
C15_Witness ==
    /\ AtEnd(lexer)
    /\ lexer.input = <<"a", "\n", "\n", "\n", "b">>
    /\ Len(tokens) = 5
    /\ tokens[3] = T("Blank")

\* The number of Stmt::Blank nodes of an AST.
RECURSIVE BlankStmts(_), BlankStmtsOf(_), BlankStmtsOfPairs(_)
BlankStmtsOf(nodes) ==
    IF nodes = <<>> THEN 0 ELSE BlankStmts(nodes[1]) + BlankStmtsOf(Tail(nodes))

BlankStmtsOfPairs(pairs) ==
    IF pairs = <<>> THEN 0
    ELSE BlankStmts(pairs[1][1]) + BlankStmts(pairs[1][2]) + BlankStmtsOfPairs(Tail(pairs))

BlankStmts(n) ==
    CASE n[1] = "Blank" -> 1
      [] n[1] = "Array" -> BlankStmtsOf(n[2])
      [] n[1] = "Hash" -> BlankStmtsOfPairs(n[2])
      [] n[1] = "Prefix" -> BlankStmts(n[3])
      [] n[1] = "Infix" -> BlankStmts(n[3]) + BlankStmts(n[4])
      [] n[1] = "Index" -> BlankStmts(n[2]) + BlankStmts(n[3])
      [] n[1] = "If" ->
           BlankStmts(n[2]) + BlankStmtsOf(n[3])
             + (IF n[4] = None THEN 0 ELSE BlankStmtsOf(n[4][2]))
      [] n[1] = "While" -> BlankStmts(n[2]) + BlankStmtsOf(n[3])
      [] n[1] = "Func" -> BlankStmtsOf(n[3])
      [] n[1] = "Call" -> BlankStmts(n[2]) + BlankStmtsOf(n[3])
      [] n[1] = "Let" -> BlankStmts(n[3])
      [] n[1] \in {"Return", "Expr"} -> BlankStmts(n[2])
      [] OTHER -> 0

\* The number of Blank tokens of a token stream up to its first Eof.
RECURSIVE BlankTokens(_)
BlankTokens(toks) ==
    IF toks = <<>> \/ toks[1] = Eof THEN 0
    ELSE (IF toks[1] = T("Blank") THEN 1 ELSE 0) + BlankTokens(Tail(toks))

\* C16: a parse that recorded no diagnostic holds one Stmt::Blank for each
\* Blank token of the input.
C16_BlankRecorded ==
    (pc = "done" /\ parser.errors = <<>>) =>
      BlankStmtsOf(program) = BlankTokens(parser.toks)

\* C17: a run of digits of any length is lexed, without failure, as one
\* Int token of the value the run denotes, and the lexer goes on at the
\* first character after the run.
C17_DigitRuns ==
    /\ ~lexer.panicked
    /\ \A run \in DigitRuns, rest \in NumberAfter :
          (lexer.input = run \o rest /\ tokens # <<>>) =>
            /\ tokens[1] = <<"Int", Concat(StripZeros(run))>>
            /\ Len(tokens) = 1 => lexer.pos = Len(run)

\* The text after the opening quote of the input.
Literal == Tail(lexer.input)

\* The length of the run of backslashes that ends right before s[i].
RECURSIVE BackslashesBefore(_, _)
BackslashesBefore(s, i) ==
    IF i > 1 /\ s[i - 1] = Backslash THEN 1 + BackslashesBefore(s, i - 1) ELSE 0

\* s[i] is a quote that no backslash escapes.
Closes(s, i) == s[i] = Quote /\ BackslashesBefore(s, i) % 2 = 0

Terminated(s) == \E i \in 1..Len(s) : Closes(s, i)

ClosingQuote(s) == CHOOSE i \in 1..Len(s) : Closes(s, i) /\ \A j \in 1..(i - 1) : ~Closes(s, j)

\* C18: a string literal ends at the first quote after an even number of
\* backslashes, its content is the text before that quote, and the lexer
\* goes on at the character after the quote.
C18_StringEnd ==
    (tokens # <<>> /\ Terminated(Literal)) =>
      LET close == ClosingQuote(Literal)
      IN  /\ tokens[1] = <<"String", Concat(unescape(SubSeq(Literal, 1, close - 1)))>>
          /\ Len(tokens) = 1 => lexer.pos = close + 1

\* C19: when the input ends before the closing quote of a string literal,
\* next_token returns the sentinel String token and then Eof on every call.
C19_UnterminatedString ==
    (tokens # <<>> /\ ~Terminated(Literal)) =>
      /\ ~lexer.panicked
      /\ tokens[1] = <<"String", PrematureEof>>
      /\ \A i \in 2..Len(tokens) : tokens[i] = Eof

\* The texts of the diagnostics, each followed by a newline, in their order.
RECURSIVE Lines(_, _)
Lines(errors, i) ==
    IF i > Len(errors) THEN "" ELSE Display(errors[i]) \o "\n" \o Lines(errors, i + 1)

\* C20: with a diagnostic recorded, eval returns the texts of the
\* diagnostics and builds no environment and evaluates nothing, and format
\* returns the empty string; with none recorded, the Program is evaluated,
\* or formatted.
C20_DiagnosticsMeanFailure ==
    host.returned =>
      /\ (parser.errors # <<>> /\ host.entry = "eval") =>
           /\ host.output = <<"text", Lines(parser.errors, 1)>>
           /\ host.env = None
           /\ host.evaluated = None
      /\ (parser.errors # <<>> /\ host.entry = "format") =>
           host.output = <<"text", "">>
      /\ (parser.errors = <<>> /\ host.entry = "eval") =>
           /\ host.evaluated = program
           /\ host.output = <<"evaluated", program>>
      /\ (parser.errors = <<>> /\ host.entry = "format") =>
           host.output = <<"formatted", program>>

\* eval has returned on a text with one diagnostic, on one with three, and
\* on one with none.
C20_Witness ==
    /\ host.returned
    /\ host.entry = "eval"
    /\ \/ Len(parser.errors) = 1 /\ lexer.input = ASCII("1 +")
       \/ Len(parser.errors) = 3
       \/ Len(program) = 2 /\ parser.errors = <<>>

\* A name written in ASCII, as against a localized one.
PlainName(name) == SubSeq(name, 1, 1) # "<"

\* Every name of the table has a partner of the other lexicon bound to the
\* same function with the same arity.
Dual(table) ==
    \A name \in DOMAIN table :
      \E alias \in DOMAIN table :
        /\ PlainName(alias) # PlainName(name)
        /\ table[alias] = table[name]

\* C21: in the table of new_builtins and in the root environment the host
\* builds, every builtin is registered under a plain name and a localized
\* alias, both bound to the same function with the same arity.
C21_BuiltinsDual ==
    /\ Dual(new_builtins)
    /\ host.env # None => Dual(host.env[2])

ObjectVariants ==
    {"Int", "String", "Bool", "Array", "Hash", "Func", "Builtin", "Null", "ReturnValue",
     "BreakStatement", "ContinueStatement", "Error"}

\* The kinds of first argument a native function has a result other than
\* Error for.
SupportedKinds(func) ==
    CASE func = "monkey_len" -> {"String", "Array"}
      [] func \in {"monkey_first", "monkey_last", "monkey_rest", "monkey_push"} -> {"Array"}
      [] func \in {"her_print", "her_atoi"} -> {"String"}
      [] func \in {"her_repr", "her_str"} -> ObjectVariants

Called1(name) == pc # "call" /\ call.name = name

\* C22, as stated: a fixed-arity builtin called with as many arguments as
\* it declares returns an Object, which is an Error exactly when the kind of
\* the argument is unsupported.
C22_ErrorIffUnsupported ==
    (pc # "call" /\ call.name \in FixedArity) =>
      /\ call.result[1] \in ObjectVariants
      /\ call.result[1] = "Error" <=>
           call.args[1][1] \notin SupportedKinds(new_builtins[call.name][3])

\* C22, amended: a fixed-arity builtin called with as many arguments as it
\* declares returns an Object (it neither panics nor ends the process); the
\* Object is an Error exactly when the kind of the argument is unsupported
\* or the builtin is atoi and the string is not the numeral of an i64.  len
\* of a String or an Array is an Int.
C22_BuiltinsTotal ==
    (pc # "call" /\ call.name \in FixedArity) =>
      LET func == new_builtins[call.name][3]
      IN  /\ pc = "returned"
          /\ call.result[1] \in ObjectVariants
          /\ call.result[1] = "Error" <=>
               \/ call.args[1][1] \notin SupportedKinds(func)
               \/ func = "her_atoi" /\ str_parse_i64(call.args[1][2])[1] = "Err"
          /\ (func = "monkey_len" /\ call.result[1] # "Error") => call.result[1] = "Int"

\* push has returned the Array extended by its second argument, len of an
\* Int an Error, and atoi of "-7" an Int.
C22_Witness ==
    \/ /\ Called1("push")
       /\ call.args = <<Array(<<Integer("1"), String("a")>>), Null>>
       /\ call.result = Array(<<Integer("1"), String("a"), Null>>)
    \/ /\ Called1("len")
       /\ call.args = <<Integer("5")>>
       /\ call.result[1] = "Error"
    \/ /\ Called1("<mo><ling>")
       /\ call.args = <<String("-7")>>
       /\ call.result = Integer("-7")

\* The value of an Object: its variant and fields, the entries of a Hash as
\* a set.
RECURSIVE ValueOf(_)
ValueOf(o) ==
    CASE o[1] = "Array" -> <<"Array", [i \in 1..Len(o[2]) |-> ValueOf(o[2][i])]>>
      [] o[1] = "Hash" ->
           <<"Hash", {<<ValueOf(o[2][i][1]), ValueOf(o[2][i][2])>> : i \in 1..Len(o[2])}>>
      [] o[1] = "ReturnValue" -> <<"ReturnValue", ValueOf(o[2])>>
      [] OTHER -> o

Hashable == {"Int", "Bool", "String"}

\* C23: two equal Objects have the same hash; an Int, a Bool and a String
\* hash by their value; an Object of any other variant has the one hash
\* that Null has; and == tells two Objects apart exactly when their values
\* differ, whatever their hashes.
C23_HashConsistent ==
    (pc = "returned" /\ call.name = "hash") =>
      LET x == call.args[1]
          y == call.args[2]
          equal == call.result[1]
      IN  /\ equal => call.result[2] = call.result[3]
          /\ equal <=> ValueOf(x) = ValueOf(y)
          /\ (x[1] \in Hashable /\ x[1] = y[1]) =>
               (call.result[2] = call.result[3] <=> x[2] = y[2])
          /\ x[1] \notin Hashable => call.result[2] = hash(Null)

\* Two Hashes that list the same entries in a different order have been
\* found equal, and an Array and a Func unequal in the shared bucket.
C23_Witness ==
    /\ pc = "returned"
    /\ call.name = "hash"
    /\ \/ /\ call.args[1][1] = "Hash"
          /\ Len(call.args[1][2]) = 2
          /\ call.args[1] # call.args[2]
          /\ call.result[1]
       \/ /\ call.args[1][1] = "Array"
          /\ call.args[2][1] = "Func"
          /\ ~call.result[1]
          /\ call.result[2] = call.result[3]

\* The argument lists quit ends the process for.
Quits(args) == Len(args) = 0 \/ (Len(args) = 1 /\ args[1][1] = "Int")

\* C27, as stated: quit, under both names, ends the process exactly when it
\* is called with no argument, with code 0, or with one Int, with that value
\* as the code; for every other argument list it returns an Error.
C27_QuitExitsWithValue ==
    (pc # "call" /\ call.name \in {"quit", "<heng>"}) =>
      /\ pc = "exited" <=> Quits(call.args)
      /\ Len(call.args) = 0 => call.result = Exit(0)
      /\ (Len(call.args) = 1 /\ call.args[1][1] = "Int") =>
           (call.result[1] = "Exit" /\ ToString(call.result[2]) = call.args[1][2])
      /\ ~Quits(call.args) => (pc = "returned" /\ call.result[1] = "Error")

\* The numeral of an i64 that is also an i32.
FitsI32(numeral) ==
    LET chars == ASCII(numeral)
        negative == chars[1] = "-"
        digits == IF negative THEN Tail(chars) ELSE chars
        limit == IF negative THEN ASCII("2147483648") ELSE ASCII("2147483647")
    IN  Len(digits) < Len(limit) \/ (Len(digits) = Len(limit) /\ NumeralLeq(digits, limit))

\* The Ints of the argument lists that are no i32, and each of them modulo
\* 2^32 in the range of i32.
Wrapped ==
    [numeral \in {"2147483648", "4294967296", "-2147483649"} |->
       CASE numeral = "2147483648" -> -2147483647 - 1
         [] numeral = "4294967296" -> 0
         [] numeral = "-2147483649" -> 2147483647]

\* C27, amended: quit, under both names, ends the process exactly when it
\* is called with no argument, with code 0, or with one Int, with that value
\* as the code if it is an i32 and the value wrapped to 32 bits if not; for
\* every other argument list it returns an Error and the process goes on.
C27_QuitExits ==
    (pc # "call" /\ call.name \in {"quit", "<heng>"}) =>
      /\ pc = "exited" <=> Quits(call.args)
      /\ Len(call.args) = 0 => call.result = Exit(0)
      /\ (Len(call.args) = 1 /\ call.args[1][1] = "Int") =>
           /\ call.result[1] = "Exit"
           /\ FitsI32(call.args[1][2]) => ToString(call.result[2]) = call.args[1][2]
           /\ ~FitsI32(call.args[1][2]) => call.result[2] = Wrapped[call.args[1][2]]
      /\ ~Quits(call.args) => (pc = "returned" /\ call.result[1] = "Error")

\* The localized quit has ended the process with code -3, or the plain one
\* has returned an Error for a String, or for two Ints.
C27_Witness ==
    \/ pc = "exited" /\ call.name = "<heng>" /\ call.args = <<Integer("-3")>>
         /\ call.result = Exit(-3)
    \/ pc = "returned" /\ call.name = "quit" /\ call.args = <<String("12")>>
         /\ call.result[1] = "Error"
    \/ pc = "returned" /\ call.name = "quit" /\ call.args = <<Integer("0"), Integer("5")>>
         /\ call.result[1] = "Error"

\* A token parse_stmt hands to parse_expr and parse_expr has no prefix
\* handler for.
NoPrefixRule(tok) ==
    kind(tok) \notin {"Ident", "Int", "String", "Bool", "Lbracket", "Lbrace", "Bang", "Minus",
                      "Plus", "Lparen", "If", "While", "Func", "Let", "Return", "Break",
                      "Continue", "Blank", "Eof"}

\* The first statement began with a token without a prefix handler and the
\* statement loop has gone past it.
FirstTokenRefused ==
    /\ pc = "parse"
    /\ parser.pos = 2
    /\ parser.toks # <<>>
    /\ NoPrefixRule(parser.toks[1])

\* C28: when parse_expr has no prefix handler for the current token, it
\* records one diagnostic, which names that token, and returns no node.
C28_NoPrefixNamesCurrent ==
    FirstTokenRefused =>
      /\ parser.errors = <<UnexpectedToken(None, parser.toks[1])>>
      /\ program = <<>>

\* C29: next_token returns Eof only when every character of the input has
\* been consumed, every call after an Eof returns Eof again, and so the
\* tokens the parser leaves behind when it stops are all Eof.
C29_EofIsEnd ==
    /\ (tokens # <<>> /\ tokens[Len(tokens)] = Eof) => AtEnd(lexer)
    /\ \A i \in 1..Len(tokens) : \A j \in i..Len(tokens) :
         tokens[i] = Eof => tokens[j] = Eof
    /\ pc = "done" => \A i \in parser.pos..Len(parser.toks) : parser.toks[i] = Eof

\* C30: no Ident token carries a name that is a keyword spelling of either
\* lexicon.
C30_IdentNeverKeyword ==
    \A i \in 1..Len(tokens) : kind(tokens[i]) = "Ident" => Keyword(tokens[i][2]) = None

-----------------------------------------------------------------------------
(* Evaluation.                                                              *)

\* An Evaluator has been made.
Evaluating == pc \in {"eval", "evaluated", "diverged", "exited"}

\* The events of the trace that have the given name.
Events(name) == {i \in 1..Len(evaluator.trace) : evaluator.trace[i][1] = name}

\* The program of the source text is evaluated to the result.
Yields(text, result) ==
    pc = "evaluated" /\ lexer.input = ASCII(text) => evaluator.result = result

\* C24: closures use lexical scope with shared capture: the body of a called
\* function runs in a new environment whose outer link is the environment
\* captured when the function value was made, never the caller's, and the
\* captured environment is shared, not copied: a binding made in it after
\* the function was made is seen through the function.  The two programs of
\* the specification yield 5 and 1.
C24_LexicalSharedCapture ==
    Evaluating =>
      /\ \A i \in Events("call") :
            evaluator.frames[evaluator.trace[i][2]].outer = evaluator.trace[i][3]
      /\ Yields("let f = fn(x) { fn() { x } }; f(5)()", Integer("5"))
      /\ Yields("let c = fn(){0}; let g = fn(){c}; let c = fn(){1}; g()()", Integer("1"))
      /\ Yields("let x = 1; let f = fn() { x }; let g = fn(x) { f() }; g(2)", Integer("1"))
      /\ Yields("let f = fn() { y }; let g = fn() { let y = 2; f() }; g()",
                Error("identifier not found: y"))
      /\ Yields("let x = 1; let f = fn() { x }; let x = 2; f()", Integer("2"))
      /\ Yields("let mk = fn(n) { fn(m) { n + m } }; let n = 10; let m = 20; mk(1)(2)",
                Integer("3"))
      /\ Yields("let f = fn(a) { let g = fn() { a }; let a = a + 1; g() }; f(1)",
                Integer("2"))

\* A closure was called from an environment that is not the one it captured.
C24_Witness ==
    /\ pc = "evaluated"
    /\ lexer.input = ASCII("let f = fn(x) { fn() { x } }; f(5)()")
    /\ evaluator.result = Integer("5")
    /\ \E i \in Events("call") : evaluator.trace[i][3] # evaluator.trace[i][4]

\* The events of one loop, in order.
LoopEvents(loop) ==
    SelectSeq(evaluator.trace,
              LAMBDA ev : ev[1] \in {"cond", "body", "end"} /\ ev[2] = loop)

Loops == {evaluator.trace[i][2] : i \in Events("cond") \cup Events("body") \cup Events("end")}

\* The event after the k-th of the events L has the given name.
Then(L, k, name) == k < Len(L) /\ L[k + 1][1] = name

\* C25: while-loop signal handling: the condition is evaluated before every
\* iteration; a break signal from the body ends the loop at once with Null,
\* without another condition check; a continue signal is swallowed and the
\* next thing is the condition check; a ReturnValue or an Error from the
\* body ends the loop and is its result, unchanged.
C25_LoopSignals ==
    pc \in {"eval", "evaluated"} =>
      \A loop \in Loops : \A k \in 1..Len(LoopEvents(loop)) :
        /\ LoopEvents(loop)[k][1] = "body" =>
              /\ k > 1
              /\ LoopEvents(loop)[k - 1][1] = "cond"
              /\ LoopEvents(loop)[k - 1][3]
              /\ CASE LoopEvents(loop)[k][3][1] = "BreakStatement" ->
                         /\ Then(LoopEvents(loop), k, "end")
                         /\ LoopEvents(loop)[k + 1][3] = Null
                    [] LoopEvents(loop)[k][3][1] \in {"ReturnValue", "Error"} ->
                         /\ Then(LoopEvents(loop), k, "end")
                         /\ LoopEvents(loop)[k + 1][3] = LoopEvents(loop)[k][3]
                    [] OTHER -> Then(LoopEvents(loop), k, "cond")
        /\ LoopEvents(loop)[k][1] = "end" => k = Len(LoopEvents(loop))
        /\ LoopEvents(loop)[k][1] = "cond" => k = 1 \/ LoopEvents(loop)[k - 1][1] = "body"

\* A loop went on after a continue signal and was ended by a break signal.
C25_Witness ==
    /\ pc = "evaluated"
    /\ evaluator.result = Integer("3")
    /\ \E i \in Events("body") : evaluator.trace[i][3] = ContinueStatement
    /\ \E i \in Events("body") : evaluator.trace[i][3] = BreakStatement

\* C26: Error propagation: the first Error produced anywhere is the result
\* of the whole evaluation, unchanged; once it is produced no statement and
\* no loop condition is evaluated, no function body is entered and no other
\* Error is produced: the loops it leaves end with it.
C26_FirstErrorIsFinal ==
    Evaluating =>
      /\ \A k \in Events("error") : \A j \in k + 1..Len(evaluator.trace) :
            /\ evaluator.trace[j][1] \in {"body", "end"}
            /\ evaluator.trace[j][3] = Error(evaluator.trace[k][2])
      /\ \A k \in Events("error") :
            pc = "evaluated" /\ evaluator.result = Error(evaluator.trace[k][2])
      /\ evaluator.result[1] = "Error" => Events("error") # {}

\* An Error produced three calls deep is the result of the program.
C26_Witness ==
    /\ pc = "evaluated"
    /\ evaluator.next <= Len(program)
    /\ evaluator.result = Error("unknown operator: 1 Plus true")
    /\ Cardinality(Events("call")) = 3

====
